---- MODULE Spec2Model ----
(***************************************************************************)
(* Model of SBLex: the rule / token model (lex_bases.py), the builder      *)
(* (lex.lex) and the matching engine (lex._lexer).                         *)
(*                                                                         *)
(* Strings are sequences of one-character strings.  A Python value that    *)
(* may be None is a sequence of length 0 (None) or 1 (the value).          *)
(***************************************************************************)
EXTENDS Integers, Sequences, FiniteSets, TLC

(***************************************************************************)
(* Bounds                                                                  *)
(***************************************************************************)
MaxLen == 4

MaxReuseLen == 2

MaxFairLen == 2

(***************************************************************************)
(* Generic helpers                                                         *)
(***************************************************************************)
None == << >>

Some(x) == << x >>

NL == "\n"

Chars == {"a", "b", " ", NL}

MaxOf(S) == CHOOSE x \in S : \A y \in S : y <= x

MinOf(S) == CHOOSE x \in S : \A y \in S : x <= y

Texts(n) == UNION {[1..k -> Chars] : k \in 0..n}

SubStr(s, from, to) == [i \in 1..(to - from + 1) |-> s[from + i - 1]]

\* the element of a one-element set: Only({e : x \in {v}}) is e with the local
\* variable x holding the value of v
Only(S) == CHOOSE x \in S : TRUE

(***************************************************************************)
(* Regular expressions (the part of Python's re the rules use).            *)
(* A pattern is a sequence of atoms; an atom is a character class with a   *)
(* greedy quantifier: "1" (exactly one), "+" (one or more), "*" (zero or   *)
(* more).  grp = <<i, j>> makes atoms i..j capturing group 1; <<0, 0>>     *)
(* means the pattern has no capturing group.                               *)
(***************************************************************************)
Lit(c) == [cls |-> {c}, rep |-> "1"]

Plus(cls) == [cls |-> cls, rep |-> "+"]

Star(cls) == [cls |-> cls, rep |-> "*"]

Pat(atoms) == [atoms |-> atoms, grp |-> <<0, 0>>]

PatG(atoms, i, j) == [atoms |-> atoms, grp |-> <<i, j>>]

\* number of consecutive characters of text after offset pos that are in cls
RunLen(cls, text, pos) ==
  Only({IF stops = {} THEN Len(text) - pos ELSE MinOf(stops) - 1 - pos :
          stops \in {{k \in (pos + 1)..Len(text) : text[k] \notin cls}}})

\* greedy match with backtracking of atoms i.. at offset pos; ends[k] is the
\* offset at which atom i+k-1 ends
RECURSIVE MatchAtoms(_, _, _, _)
\* atom i takes the most characters of good, the counts the rest can follow
MatchTaking(atoms, i, text, pos, good) ==
  IF good = {} THEN [ok |-> FALSE, ends |-> << >>]
  ELSE Only({[ok   |-> TRUE,
              ends |-> <<pos + c>> \o MatchAtoms(atoms, i + 1, text, pos + c).ends] :
               c \in {MaxOf(good)}})

\* atom i in front of a run of run characters of its class
MatchRun(atoms, i, text, pos, run) ==
  LET a  == atoms[i]
      lo == IF a.rep = "*" THEN 0 ELSE 1
      hi == IF a.rep = "1" THEN (IF run >= 1 THEN 1 ELSE 0) ELSE run
  IN  Only({MatchTaking(atoms, i, text, pos, good) :
              good \in {{c \in lo..hi : MatchAtoms(atoms, i + 1, text, pos + c).ok}}})

MatchAtoms(atoms, i, text, pos) ==
  IF i > Len(atoms) THEN [ok |-> TRUE, ends |-> << >>]
  ELSE Only({MatchRun(atoms, i, text, pos, run) :
               run \in {RunLen(atoms[i].cls, text, pos)}})

\* the groups of the match m of pat at offset pos
MatchGroups(pat, text, pos, m) ==
  IF ~m.ok THEN [ok |-> FALSE, g0 |-> << >>, g1 |-> None]
  ELSE LET endAll == IF Len(pat.atoms) = 0 THEN pos ELSE m.ends[Len(pat.atoms)]
           gFrom  == IF pat.grp[1] <= 1 THEN pos ELSE m.ends[pat.grp[1] - 1]
           gTo    == IF pat.grp[1] = 0 THEN pos ELSE m.ends[pat.grp[2]]
       IN  [ok |-> TRUE,
            g0 |-> SubStr(text, pos + 1, endAll),
            g1 |-> IF pat.grp[1] = 0 THEN None
                   ELSE Some(SubStr(text, gFrom + 1, gTo))]

\* pattern.match(text) at offset pos: [ok, g0, g1] with g0 the whole match
\* and g1 the text of capturing group 1 (None when the pattern has none)
ReMatchAt(pat, text, pos) ==
  Only({MatchGroups(pat, text, pos, m) : m \in {MatchAtoms(pat.atoms, 1, text, pos)}})

\* regex.match(text): anchored at the start of the text
ReMatch(pat, text) == ReMatchAt(pat, text, 0)

\* matched.group(k) for k in {0, 1}
Group(m, k) == IF k = 0 THEN m.g0 ELSE m.g1[1]

\* regex.split(text)[0]: the text before the first place the pattern matches
ReSplitFirst(pat, text) ==
  Only({IF hits = {} THEN text ELSE SubStr(text, 1, MinOf(hits)) :
          hits \in {{p \in 0..Len(text) : ReMatchAt(pat, text, p).ok}}})

\* remove the last occurrence of old
ReplaceLast(text, old) ==
  Only({IF Len(old) = 0 \/ hits = {} THEN text
        ELSE SubStr(text, 1, MaxOf(hits))
               \o SubStr(text, MaxOf(hits) + Len(old) + 1, Len(text)) :
          hits \in {{p \in 0..(Len(text) - Len(old)) :
                       SubStr(text, p + 1, p + Len(old)) = old}}})

\* text.replace(old, "", 1): remove the first occurrence of old
ReplaceFirst(text, old) ==
  Only({IF Len(old) = 0 \/ hits = {} THEN text
        ELSE SubStr(text, 1, MinOf(hits))
               \o SubStr(text, MinOf(hits) + Len(old) + 1, Len(text)) :
          hits \in {{p \in 0..(Len(text) - Len(old)) :
                       SubStr(text, p + 1, p + Len(old)) = old}}})

\* len(re.findall(r"\n", text))
CountNL(text) == Cardinality({k \in 1..Len(text) : text[k] = NL})

(***************************************************************************)
(* lex_bases.py: rules and tokens                                          *)
(***************************************************************************)
\* a custom error is absent, a template string or a callback
NoError == [kind |-> "none"]

TemplateError(name) == [kind |-> "template", name |-> name]

CallbackError == [kind |-> "callback"]

\* a regex argument: one pattern (str) or a list of patterns
One(p) == [is_array |-> FALSE, pats |-> <<p>>]

Many(ps) == [is_array |-> TRUE, pats |-> ps]

\* an entry of a dependency chain: a rule, or a list of alternative rules
Entry(r) == [is_list |-> FALSE, items |-> <<r>>]

EntryList(rs) == [is_list |-> TRUE, items |-> rs]

\* a dependencies argument: a plain list of entries, or a dict with "rules"
DepList(entries) == Some([is_dict |-> FALSE, rules |-> entries, ignore_rules |-> << >>])

DepDict(entries, ign) == Some([is_dict |-> TRUE, rules |-> entries, ignore_rules |-> ign])

\* rule.__init__; rule_type is <<name, show>> (a bare name means show = TRUE)
rule(rule_type, regex, dependencies, function) ==
  [type            |-> rule_type[1],
   show            |-> rule_type[2],
   dependencies    |-> dependencies,
   regex           |-> regex.pats,
   regex_is_array  |-> regex.is_array,
   uses_skips      |-> FALSE,
   skips_rules     |-> None,
   match_function  |-> function,
   custom_error    |-> NoError,
   accept_skips    |-> dependencies # None,
   regex_group     |-> 0]

set_accept_skips(r, b) == [r EXCEPT !.accept_skips = b]

set_regex_group(r, g) == [r EXCEPT !.regex_group = g]

set_custom_error(r, e) == [r EXCEPT !.custom_error = e]

set_skip_rules(r, skips_list) ==
  [r EXCEPT !.uses_skips = (skips_list # None), !.skips_rules = skips_list]

\* value-transform functions a rule can carry:
\*   "none"  no function;  "keep"  f(text) returns None;
\*   "first" f(text) returns the first character of text (a replacement)
Functions == {"none", "keep", "first"}

CallFunction(f, text) ==
  IF f = "first" /\ Len(text) > 0 THEN Some(SubStr(text, 1, 1)) ELSE None

_convert_to_token_dependent_format(dependencies) ==
  IF dependencies # None
  THEN <<TRUE, [rules |-> dependencies[1].rules,
                ignore_rules |-> dependencies[1].ignore_rules]>>
  ELSE <<FALSE, [rules |-> << >>, ignore_rules |-> << >>]>>

\* token.__init__
token(type, value, dependencies) ==
  [type                 |-> type,
   value                |-> value,
   not_processed_value  |-> None,
   truly_original_value |-> None,
   show                 |-> TRUE,
   line                 |-> None,
   col                  |-> None,
   uses_skips           |-> FALSE,
   skips_rules          |-> None,
   deprecated           |-> None,
   parent               |-> None,
   is_dependent         |-> _convert_to_token_dependent_format(dependencies)[1],
   dependencies         |-> _convert_to_token_dependent_format(dependencies)[2]]

\* token.__eq__
token_eq(tok, other) == ~(tok.type # other.type /\ tok.value # other.value)

\* token.__ne__
token_ne(tok, other) == ~token_eq(tok, other)

\* token.set_line_where_finded
set_line_where_finded(tok, l) == [tok EXCEPT !.line = Some(l)]

\* a token that kept only its value: the text of the capturing group
get_value_only(tok) == tok.value[1]

get_truly_original_value(tok) ==
  IF tok.truly_original_value # None THEN tok.truly_original_value[1]
  ELSE tok.value[1]

get_not_processed_value(tok) ==
  IF tok.not_processed_value # None THEN tok.not_processed_value[1]
  ELSE tok.value[1]

\* rule._compile_text_to_token: the token and whether the obsolete line
\* counter function was called
_compile_text_to_token(r, text, line, col, obsolete, truly) ==
  LET processed == IF r.match_function = "none" \/ r.type = "SKIPPED" THEN None
                   ELSE CallFunction(r.match_function, text)
      base == [token(r.type, IF processed # None THEN processed ELSE Some(text),
                     r.dependencies)
                 EXCEPT !.parent = Some(r),
                        !.show = r.show,
                        !.truly_original_value = truly,
                        !.line = Some(line),
                        !.col = Some(col),
                        !.not_processed_value =
                            IF processed # None THEN Some(text) ELSE None,
                        !.deprecated = Some(obsolete),
                        !.uses_skips = (r.skips_rules # None),
                        !.skips_rules = r.skips_rules]
  IN  [token |-> base,
       plus  |-> IF r.match_function = "none" /\ r.type = "JUMP_LINE" THEN 1 ELSE 0]

\* a removal that takes off a match at offset pos only
ReSubAtStart(pat, text, pos) ==
  Only({IF m.ok THEN SubStr(text, pos + Len(m.g0) + 1, Len(text))
        ELSE SubStr(text, pos + 1, Len(text)) :
          m \in {ReMatchAt(pat, text, pos)}})

\* re.sub(regex, "", text) from offset pos on
RECURSIVE ReSub(_, _, _)
ReSub(pat, text, pos) ==
  IF pos >= Len(text) THEN << >>
  ELSE Only({IF m.ok /\ Len(m.g0) > 0 THEN ReSub(pat, text, pos + Len(m.g0))
             ELSE <<text[pos + 1]>> \o ReSub(pat, text, pos + 1) :
               m \in {ReMatchAt(pat, text, pos)}})

RECURSIVE _clean_text_based_on_list(_, _)
_clean_text_based_on_list(text, rules_to_clean_in_text) ==
  IF rules_to_clean_in_text = << >> THEN text
  ELSE Only({_clean_text_based_on_list(my_text, Tail(rules_to_clean_in_text)) :
               my_text \in {ReSub(Head(rules_to_clean_in_text).regex[1], text, 0)}})

\* index of the last pattern of the rule that matches the text, 0 if none
LastMatching(r, text) ==
  Only({IF hits = {} THEN 0 ELSE MaxOf(hits) :
          hits \in {{i \in 1..Len(r.regex) : ReMatch(r.regex[i], text).ok}}})

\* index of the first pattern of the rule that matches the text, 0 if none
FirstMatching(r, text) ==
  Only({IF hits = {} THEN 0 ELSE MinOf(hits) :
          hits \in {{i \in 1..Len(r.regex) : ReMatch(r.regex[i], text).ok}}})

\* the token rule r makes of the match of its pattern i on the cleaned text
MatchedToken(r, text, i, actual_line, actual_col, obsolete) ==
  IF i = 0 THEN [ok |-> FALSE, token |-> None, plus |-> 0]
  ELSE Only({Only({[ok |-> TRUE, token |-> Some(c.token), plus |-> c.plus] :
                     c \in {_compile_text_to_token(
                              r, Group(matched, r.regex_group), actual_line,
                              actual_col, obsolete,
                              IF r.regex_group > 0 THEN Some(matched.g0) ELSE None)}}) :
               matched \in {ReMatch(r.regex[i], text)}})

\* rule.check_if_match_with_rule; rules_to_ignore is None or Some(list)
check_if_match_with_rule(r, text_to_analize, rules_to_ignore, actual_line, actual_col, obsolete) ==
  Only({Only({MatchedToken(r, text, i, actual_line, actual_col, obsolete) :
                i \in {FirstMatching(r, text)}}) :
          text \in {IF rules_to_ignore # None
                    THEN _clean_text_based_on_list(text_to_analize, rules_to_ignore[1])
                    ELSE text_to_analize}})

(***************************************************************************)
(* lex.py: the builder (class lex)                                         *)
(* A builder is [rules, ignore_r, skip_rules, custom_error].               *)
(***************************************************************************)
JumpLineRule(jump_regex) == rule(<<"JUMP_LINE", FALSE>>, jump_regex, None, "none")

\* lex.__init__
lex(jump_regex, custom_error) ==
  [rules        |-> <<JumpLineRule(jump_regex)>>,
   ignore_r     |-> << >>,
   skip_rules   |-> << >>,
   custom_error |-> custom_error]

\* a normalisation that puts the line-break rule at the end of the chain
ConvertedDependenciesAtEnd(b, dependencies) ==
  IF dependencies # None /\ (~dependencies[1].is_dict \/ Len(dependencies[1].rules) >= 1)
  THEN Some([dependencies[1] EXCEPT !.rules = @ \o <<Entry(b.rules[1])>>])
  ELSE None

\* the dependency normalisation shared by lex.add and lex.skip: a dict with
\* at least one rule, or a list, gets the line-break rule inserted at 0
ConvertedDependencies(b, dependencies) ==
  IF dependencies # None /\ (~dependencies[1].is_dict \/ Len(dependencies[1].rules) >= 1)
  THEN Some([dependencies[1] EXCEPT !.rules = <<Entry(b.rules[1])>> \o @])
  ELSE None

\* lex.add
add(b, name, pattern, dependencies, function, accept_skips_rules, capturing_group) ==
  [b EXCEPT !.rules = Append(@,
      set_regex_group(
        set_accept_skips(
          rule(name, pattern, ConvertedDependencies(b, dependencies), function),
          accept_skips_rules),
        capturing_group))]

\* a skip that registers a pattern in the skip list only once
skip_deduplicated(b, pattern, dependencies, function, accept_skips_rules) ==
  LET r == set_accept_skips(
             rule(<<"SKIPPED", FALSE>>, pattern,
                  ConvertedDependencies(b, dependencies), function),
             accept_skips_rules)
  IN  IF \E i \in DOMAIN b.skip_rules : b.skip_rules[i].regex = r.regex
      THEN [b EXCEPT !.rules = Append(@, r)]
      ELSE [b EXCEPT !.skip_rules = Append(@, r), !.rules = Append(@, r)]

\* lex.skip
skip(b, pattern, dependencies, function, accept_skips_rules) ==
  LET r == set_accept_skips(
             rule(<<"SKIPPED", FALSE>>, pattern,
                  ConvertedDependencies(b, dependencies), function),
             accept_skips_rules)
  IN  [b EXCEPT !.skip_rules = Append(@, r), !.rules = Append(@, r)]

\* lex.load_premade for one rule
load_premade(b, premade, load_functions) ==
  LET withJump == IF premade.dependencies # None
                  THEN [premade EXCEPT !.dependencies =
                          Some([@[1] EXCEPT !.rules = <<Entry(b.rules[1])>> \o @])]
                  ELSE premade
      tmp      == IF load_functions THEN withJump
                  ELSE [withJump EXCEPT !.match_function = "none"]
  IN  [b EXCEPT !.rules = Append(@, tmp)]

\* an _ignore that registers the pattern whether forced or not
_ignore_unguarded(b, pattern, force_usage) ==
  [b EXCEPT !.ignore_r = Append(@, rule(<<"IGNORED", TRUE>>, pattern, None, "none"))]

\* lex._ignore: without force_usage it raises a Warning and adds nothing
_ignore(b, pattern, force_usage) ==
  IF force_usage
  THEN [b EXCEPT !.ignore_r = Append(@, rule(<<"IGNORED", TRUE>>, pattern, None, "none"))]
  ELSE b

\* len(self.rules), the position after the last rule
PositionAfter(b) == Len(b.rules)

\* len(self.rules) - 1, the value lex.add, lex.skip and lex._ignore return
Position(b) == Len(b.rules) - 1

\* lex.load_premade for a rule or a list of rules: the builder afterwards and
\* the list of positions it returns
RECURSIVE LoadAll(_, _, _, _)
LoadAll(b, premades, load_functions, pos_in_rule_list) ==
  IF premades = << >> THEN [b |-> b, pos_in_rule_list |-> pos_in_rule_list]
  ELSE LoadAll(load_premade(b, Head(premades), load_functions), Tail(premades),
               load_functions, Append(pos_in_rule_list, Len(b.rules)))

\* lex.add called with the list object that rule i of the builder was
\* registered with: insert(0, ...) acts on the one list, which rule i holds too
add_shared(b, i, name, pattern) ==
  LET b2 == add(b, name, pattern, b.rules[i].dependencies, "none", TRUE, 0)
  IN  [b2 EXCEPT !.rules[i].dependencies = b2.rules[Len(b2.rules)].dependencies]

\* lex.load_premade called with the rule object the builder holds at position
\* i: tmp is that object, so the insert into its chain and the assignment to
\* its match_function show at position i too
load_premade_again(b, i, load_functions) ==
  LET b2 == load_premade(b, b.rules[i], load_functions)
  IN  [b2 EXCEPT !.rules[i] = b2.rules[Len(b2.rules)]]

\* a build that attaches the skip list to every rule
BuildRulesAll(b, add_skips_in_rules) ==
  IF add_skips_in_rules
  THEN [i \in 1..Len(b.rules) |-> set_skip_rules(b.rules[i], Some(b.skip_rules))]
  ELSE b.rules

\* lex.build: the rule list the engine is constructed over
BuildRules(b, add_skips_in_rules) ==
  IF add_skips_in_rules
  THEN [i \in 1..Len(b.rules) |->
          IF b.rules[i].accept_skips
          THEN set_skip_rules(b.rules[i], Some(b.skip_rules))
          ELSE b.rules[i]]
  ELSE b.rules

\* lex.build: the arguments of _lexer(rules, ignore_rules, custom_error)
build(b, add_skips_in_rules) ==
  [rules           |-> BuildRules(b, add_skips_in_rules),
   rules_to_ignore |-> b.ignore_r,
   custom_error    |-> b.custom_error]

(***************************************************************************)
(* lex.py: the matching engine (class _lexer)                              *)
(***************************************************************************)
VARIABLES
  rules,                     \* _lexer._rules
  rules_to_ignore,           \* _lexer._rules_to_ignore
  custom_error,              \* _lexer._custom_error
  original_text,             \* _lexer._original_text
  text_to_process,           \* _lexer._text_to_process (None when exhausted)
  pos_in_str,                \* _lexer._pos_in_str
  pos_in_line,               \* _lexer._pos_in_line
  line,                      \* _lexer._line
  deprecated_line_count,     \* _lexer._deprecated_line_count
  consumed,                  \* the non-empty texts _jump_and_remove took off, in order
  token_stream,              \* evaluate: token_stream
  actual_token,              \* evaluate: actual_token
  dependent_token,           \* evaluate: dependent_token
  tokens_matching_dependent, \* evaluate: tokens_matching_dependent
  chain_idx,                 \* evaluate: position of the for loop in the chain
  frame,                     \* arguments of the running _get_next_token call
  pc,                        \* "idle", "while", "for", "gnt", "returned", "raised"
  error,                     \* the exception evaluate raised, None otherwise
  hist,                      \* an earlier finished call: [text, pc, stream, error]
  builder,                   \* the lex object the client configures, None if none
  returned,                  \* what the last builder call returned or raised
  calls,                     \* the builder calls made so far, in order
  compared                   \* the last comparison of two tokens, None if none

\* the engine, the builder whose lists it shares, and what the client did with
\* tokens: none of it is touched by evaluate
engine == <<rules, rules_to_ignore, custom_error, builder, returned, calls,
            compared>>

fields == <<original_text, text_to_process, pos_in_str, pos_in_line, line,
            deprecated_line_count, consumed>>

locals == <<token_stream, actual_token, dependent_token,
            tokens_matching_dependent, chain_idx, frame>>

vars == <<engine, fields, locals, pc, error, hist>>

\* token_stream.append(tokens_matching_dependent) stores a reference to the one
\* list evaluate created; an entry of token_stream is a token or that reference
TokenEntry(tok) == [group |-> FALSE, tok |-> Some(tok)]

GroupRef == [group |-> TRUE, tok |-> None]

\* the stream as the caller sees it: every group entry is the shared list
Stream ==
  [i \in 1..Len(token_stream) |->
     IF token_stream[i].group THEN tokens_matching_dependent
     ELSE <<token_stream[i].tok[1]>>]

NoFrame == [rules |-> << >>, ignore_rules |-> << >>, custom_error |-> NoError,
            ret |-> "none"]

EOFToken(ln) == [token("EOF", None, None) EXCEPT !.line = Some(ln)]

\* the rules whose match_function one analyze_text(text, rs, ignore_rules)
\* runs, in order: check_if_match_with_rule compiles a token, and with it calls
\* the function, for every rule of the list that matches
Invocations(text, rs, ignore_rules, ln, col) ==
  SelectSeq(rs, LAMBDA r :
    /\ r.match_function # "none"
    /\ check_if_match_with_rule(r, text, ignore_rules, ln, col, 0).ok)

\* _lexer.analyze_text, the loop from rule i on; acc is dict_with_info together
\* with the running value of _deprecated_line_count
RECURSIVE AnalyzeLoop(_, _, _, _, _, _, _)
\* dict_with_info after rule r has been tried, info being its answer
AnalyzeStep(r, acc, info) ==
  IF info.ok
  THEN [fit_with_a_rule   |-> TRUE,
        rule_that_matched |-> Some(r),
        token             |-> info.token,
        obsolete          |-> acc.obsolete + info.plus]
  ELSE acc

AnalyzeLoop(text, rs, ignore_rules, ln, col, i, acc) ==
  IF i > Len(rs) THEN acc
  ELSE Only({AnalyzeLoop(text, rs, ignore_rules, ln, col, i + 1, next) :
               next \in {Only({AnalyzeStep(rs[i], acc, info) :
                                 info \in {check_if_match_with_rule(
                                             rs[i], text, ignore_rules, ln, col,
                                             acc.obsolete)}})}})

\* a scan that stops at the first rule that matches: first-match-wins
analyze_text_first(text, rs, ignore_rules, ln, col, obsolete) ==
  LET last == AnalyzeLoop(text, rs, ignore_rules, ln, col, 1,
                          [fit_with_a_rule |-> FALSE, rule_that_matched |-> None,
                           token |-> None, obsolete |-> obsolete])
      M    == {i \in 1..Len(rs) :
                 check_if_match_with_rule(rs[i], text, ignore_rules, ln, col,
                                          obsolete).ok}
  IN  IF M = {} THEN last
      ELSE [last EXCEPT
              !.rule_that_matched = Some(rs[MinOf(M)]),
              !.token = check_if_match_with_rule(rs[MinOf(M)], text, ignore_rules,
                                                 ln, col, obsolete).token]

\* _lexer.analyze_text
analyze_text(text, rs, ignore_rules, ln, col, obsolete) ==
  Only({AnalyzeLoop(text, rs, ignore_rules, ln, col, 1, acc) :
          acc \in {[fit_with_a_rule |-> FALSE, rule_that_matched |-> None,
                    token |-> None, obsolete |-> obsolete]}})

\* error data that reports the start of the text as the position
_get_error_data_at_start(text) ==
  [line |-> line,
   pos  |-> 0,
   text |-> IF Len(rules) = 0 \/ rules[1].regex_is_array THEN text
            ELSE ReSplitFirst(rules[1].regex[1], text)]

\* _lexer._get_error_data
_get_error_data(text) ==
  [line |-> line,
   pos  |-> pos_in_str,
   text |-> IF Len(rules) = 0 \/ rules[1].regex_is_array THEN text
            ELSE ReSplitFirst(rules[1].regex[1], text)]

\* str(n) for a natural number
RECURSIVE Str(_)
Str(n) ==
  IF n < 10 THEN <<<<"0", "1", "2", "3", "4", "5", "6", "7", "8", "9">>[n + 1]>>
  ELSE Str(n \div 10) \o Str(n % 10)

\* the placeholders of a template custom error
LinePlaceholder == <<"[", "[", "L", "I", "N", "E", "]", "]">>
TextPlaceholder == <<"[", "[", "T", "E", "X", "T", "]", "]">>

\* the string of a template custom error; its words outside the placeholders
\* are kept as one symbol, the name of the template
TemplateText(name) ==
  <<name, " ">> \o LinePlaceholder \o <<" ">> \o TextPlaceholder
               \o <<" ">> \o TextPlaceholder

\* str.replace(old, new, 1): only the first occurrence
RECURSIVE ReplaceOnce(_, _, _)
ReplaceOnce(s, old, new) ==
  IF Len(s) < Len(old) THEN s
  ELSE IF SubStr(s, 1, Len(old)) = old
       THEN new \o SubStr(s, Len(old) + 1, Len(s))
       ELSE <<s[1]>> \o ReplaceOnce(Tail(s), old, new)

\* str.replace(old, new): every occurrence, left to right
RECURSIVE Replace(_, _, _)
Replace(s, old, new) ==
  IF Len(s) < Len(old) THEN s
  ELSE IF SubStr(s, 1, Len(old)) = old
       THEN new \o Replace(SubStr(s, Len(old) + 1, Len(s)), old, new)
       ELSE <<s[1]>> \o Replace(Tail(s), old, new)

\* the message of the exception _get_next_token ends in when nothing fits:
\* the default message of _throw_lexing_error, the filled template of a string
\* custom error, none for a callback (the failure is not raised by the engine)
error_message(custom, data) ==
  IF custom.kind = "none"
  THEN Some(<<"Ilegal character! at line [ ">> \o Str(data.line)
            \o <<" ] { Invalid Text } -> '">> \o data.text \o <<"'">>)
  ELSE IF custom.kind = "template"
  THEN Some(Replace(Replace(TemplateText(custom.name), LinePlaceholder,
                            Str(data.line)),
                    TextPlaceholder, data.text))
  ELSE None

\* _lexer._jump_and_remove applied to (pos_in_str, pos_in_line, text)
_jump_and_remove(p_str, p_line, text, jump_size, text_to_remove) ==
  [pos_in_str      |-> p_str + jump_size,
   pos_in_line     |-> p_line + jump_size,
   text_to_process |-> IF p_str + jump_size > Len(original_text) - 1 THEN None
                       ELSE Some(ReplaceFirst(text, text_to_remove))]

\* skips put behind the rules of the step instead of at index 1
InsertSkipsAtEnd(rs, skips) == rs \o skips

\* rules.insert(1, skip) for every skip of the list, in order
RECURSIVE InsertSkips(_, _)
InsertSkips(rs, skips) ==
  IF skips = << >> THEN rs
  ELSE InsertSkips(IF rs = << >> THEN <<Head(skips)>>
                   ELSE <<rs[1], Head(skips)>> \o Tail(rs),
                   Tail(skips))

\* a test that lets only the first entry of a chain pass as the line-break rule
IsFirstJumpLine(chain, idx) ==
  idx = 1 /\ ~chain[idx].is_list /\ chain[idx].items[1].type = "JUMP_LINE"

\* evaluate: rule_to_check is a rule of type JUMP_LINE, which the for loop passes
IsJumpLineEntry(chain, idx) ==
  ~chain[idx].is_list /\ chain[idx].items[1].type = "JUMP_LINE"

\* a chain step that inserts the skip rules into the chain of the
\* dependent rule itself
RulesAfterStepInPlace(rs, dep, entry) ==
  LET skips == IF dep.uses_skips THEN dep.skips_rules[1] ELSE << >>
      added == [k \in 1..Len(skips) |-> Entry(skips[k])]
  IN  [i \in 1..Len(rs) |->
         IF Some(rs[i]) = dep.parent
         THEN [rs[i] EXCEPT !.dependencies =
                 Some([@[1] EXCEPT !.rules = InsertSkips(@, added)])]
         ELSE rs[i]]

\* the engine's rule list after evaluate has put together the rule list of a
\* chain step: the step's list is a new list (rules = [] or
\* rules = [chain[0], rule_to_check]), the inserts act on it, and the chain and
\* the skip list are only read
RulesAfterStep(rs, dep, entry) == rs

\* a chain step that takes the engine's skip rules whether or not the
\* dependent token carries any
ChainStepWithSkips(dep, entry) ==
  LET chain   == dep.dependencies.rules
      own     == entry.items[1].custom_error
      err     == IF own.kind = "none" THEN custom_error ELSE own
      skips   == SelectSeq(rules, LAMBDA r : r.type = "SKIPPED")
      rule_0  == chain[1].items[1]
      listed  == InsertSkips(IF rule_0.type = "JUMP_LINE" THEN <<rule_0>> ELSE << >>,
                             skips) \o entry.items
      single  == <<rule_0, entry.items[1]>>
  IN  [rules        |-> InsertSkips(IF entry.is_list THEN listed ELSE single, skips),
       ignore_rules |-> dep.dependencies.ignore_rules,
       custom_error |-> err,
       ret          |-> "chain"]

\* a chain step that lists the alternatives of an entry in reverse order
ChainStepReversed(dep, entry) ==
  LET chain   == dep.dependencies.rules
      own     == entry.items[1].custom_error
      err     == IF own.kind = "none" THEN custom_error ELSE own
      skips   == IF dep.uses_skips THEN dep.skips_rules[1] ELSE << >>
      rule_0  == chain[1].items[1]
      n       == Len(entry.items)
      listed  == InsertSkips(IF rule_0.type = "JUMP_LINE" THEN <<rule_0>> ELSE << >>,
                             skips) \o [k \in 1..n |-> entry.items[n + 1 - k]]
      single  == <<rule_0, entry.items[1]>>
  IN  [rules        |-> InsertSkips(IF entry.is_list THEN listed ELSE single, skips),
       ignore_rules |-> dep.dependencies.ignore_rules,
       custom_error |-> err,
       ret          |-> "chain"]

\* a chain step that always reports through the engine's custom error
ChainStepEngineError(dep, entry) ==
  LET chain   == dep.dependencies.rules
      skips   == IF dep.uses_skips THEN dep.skips_rules[1] ELSE << >>
      rule_0  == chain[1].items[1]
      listed  == InsertSkips(IF rule_0.type = "JUMP_LINE" THEN <<rule_0>> ELSE << >>,
                             skips) \o entry.items
      single  == <<rule_0, entry.items[1]>>
  IN  [rules        |-> InsertSkips(IF entry.is_list THEN listed ELSE single, skips),
       ignore_rules |-> dep.dependencies.ignore_rules,
       custom_error |-> custom_error,
       ret          |-> "chain"]

\* the rule list and error evaluate builds for one entry of the chain
ChainStep(dep, entry) ==
  LET chain   == dep.dependencies.rules
      own     == entry.items[1].custom_error
      err     == IF own.kind = "none" THEN custom_error ELSE own
      skips   == IF dep.uses_skips THEN dep.skips_rules[1] ELSE << >>
      rule_0  == chain[1].items[1]
      listed  == InsertSkips(IF rule_0.type = "JUMP_LINE" THEN <<rule_0>> ELSE << >>,
                             skips) \o entry.items
      single  == <<rule_0, entry.items[1]>>
  IN  [rules        |-> InsertSkips(IF entry.is_list THEN listed ELSE single, skips),
       ignore_rules |-> dep.dependencies.ignore_rules,
       custom_error |-> err,
       ret          |-> "chain"]

(***************************************************************************)
(* The engines the model is run on, each built through the builder.        *)
(***************************************************************************)
PA == Pat(<<Lit("a")>>)

PB == Pat(<<Lit("b")>>)

PAB == Pat(<<Lit("a"), Lit("b")>>)

PNewLine == Pat(<<Lit(NL)>>)

PWord == Pat(<<Plus({"a", "b"})>>)

PAs == Pat(<<Plus({"a"})>>)

PBs == Pat(<<Plus({"b"})>>)

PSpaces == Pat(<<Plus({" "})>>)

PMaybeSpaces == Pat(<<Star({" "})>>)

\* a(b+) with the b's as capturing group 1
PNamed == PatG(<<Lit("a"), Plus({"b"})>>, 2, 2)

\* a followed by a line break
PALine == Pat(<<Lit("a"), Lit(NL)>>)

Visible(name) == <<name, TRUE>>

Hidden(name) == <<name, FALSE>>

\* ID [ab]+ overridden by the later KW ab; blanks skipped
KeywordLexer ==
  build(skip(add(add(lex(One(PNewLine), NoError),
                     Visible("ID"), One(PWord), None, "none", TRUE, 0),
                 Visible("KW"), One(PAB), None, "none", TRUE, 0),
             One(PSpaces), None, "none", TRUE),
        TRUE)

\* T (b) is dependent on D (a); A (a) is independent; blanks skipped
DependentLexer ==
  build(skip(add(add(lex(One(PNewLine), NoError),
                     Visible("A"), One(PA), None, "none", TRUE, 0),
                 Visible("T"), One(PB),
                 DepList(<<Entry(rule(Visible("D"), One(PA), None, "none"))>>),
                 "none", TRUE, 0),
             One(PSpaces), None, "none", TRUE),
        TRUE)

\* N takes its value from capturing group 1 of a(b+); B (b) and blanks
GroupLexer ==
  build(skip(add(add(lex(One(PNewLine), NoError),
                     Visible("B"), One(PB), None, "none", TRUE, 0),
                 Visible("N"), One(PNamed), None, "keep", TRUE, 1),
             One(PSpaces), None, "none", TRUE),
        TRUE)

\* A (a+) with a replacing transform; the invisible C (b+) with the same
FunctionLexer ==
  build(skip(add(add(lex(One(PNewLine), NoError),
                     Visible("A"), One(PAs), None, "first", TRUE, 0),
                 Hidden("C"), One(PBs), None, "first", TRUE, 0),
             One(PSpaces), None, "keep", TRUE),
        TRUE)

\* X (a and the line break after it) with a replacing transform; B (b)
LineLexer ==
  build(add(add(lex(One(PNewLine), NoError),
                Visible("B"), One(PB), None, "none", TRUE, 0),
            Visible("X"), One(PALine), None, "first", TRUE, 0),
        TRUE)

\* the patterns of test_ignore: r"test" and r"noise"
PTest == Pat(<<Lit("t"), Lit("e"), Lit("s"), Lit("t")>>)

PNoise == Pat(<<Lit("n"), Lit("o"), Lit("i"), Lit("s"), Lit("e")>>)

\* the text test_ignore evaluates
TestIgnoreText == <<"t", "e", "n", "o", "i", "s", "e", "s", "t", "t">>

\* the lexer of test_ignore: TEST (test) and the ignore pattern noise
TestIgnoreLexer ==
  build(_ignore(add(lex(One(PNewLine), NoError),
                    Visible("TEST"), One(PTest), None, "none", TRUE, 0),
                One(PNoise), TRUE),
        TRUE)

\* A (a), B (b, which an a must follow), AB (ab) and the ignore pattern of
\* spaces
NoiseLexer ==
  build(_ignore(add(add(add(lex(One(PNewLine), NoError),
                            Visible("A"), One(PA), None, "none", TRUE, 0),
                        Visible("B"), One(PB),
                        DepList(<<Entry(rule(Visible("D"), One(PA), None, "none"))>>),
                        "none", TRUE, 0),
                    Visible("AB"), One(PAB), None, "none", TRUE, 0),
                One(PSpaces), TRUE),
        TRUE)

IgnoreEngines == {TestIgnoreLexer, NoiseLexer}

\* a skip rule whose pattern matches the empty string
EmptySkipLexer ==
  build(add(skip(lex(One(PNewLine), NoError),
                 One(PMaybeSpaces), None, "none", TRUE),
            Visible("A"), One(PA), None, "none", TRUE, 0),
        TRUE)

\* engine-level custom errors: a callback, a template
CallbackLexer ==
  build(add(lex(One(PNewLine), CallbackError),
            Visible("A"), One(PA), None, "none", TRUE, 0),
        TRUE)

TemplateLexer ==
  build(add(add(lex(One(PNewLine), TemplateError("engine")),
                Visible("A"), One(PA), None, "none", TRUE, 0),
            Visible("T"), One(PB),
            DepList(<<Entry(set_custom_error(rule(Visible("D"), One(PA), None, "none"),
                                             TemplateError("rule")))>>),
            "none", TRUE, 0),
        TRUE)

\* a chain whose steps differ in their custom errors: D1 has its own, D2 has
\* none, and the last step is a list of alternatives
ChainErrorLexer ==
  build(add(lex(One(PNewLine), TemplateError("engine")),
            Visible("T"), One(PB),
            DepList(<<Entry(set_custom_error(rule(Visible("D1"), One(PA), None, "none"),
                                             TemplateError("first"))),
                      Entry(rule(Visible("D2"), One(PB), None, "none")),
                      EntryList(<<set_custom_error(rule(Visible("E1"), One(PA), None, "none"),
                                                   TemplateError("alt")),
                                  rule(Visible("E2"), One(PB), None, "none")>>)>>),
            "none", TRUE, 0),
        TRUE)

\* M, a rule with the list of patterns a, ab, b+; spaces are skipped
MultiLexer ==
  build(skip(add(lex(One(PNewLine), NoError),
                 Visible("M"), Many(<<PA, PAB, PBs>>), None, "none", TRUE, 0),
             One(PSpaces), None, "none", TRUE),
        TRUE)

\* T (b) is dependent on D (a), and the skip rule a+ matches where D does
OverlapLexer ==
  build(skip(add(lex(One(PNewLine), NoError),
                 Visible("T"), One(PB),
                 DepList(<<Entry(rule(Visible("D"), One(PA), None, "none"))>>),
                 "none", TRUE, 0),
             One(PAs), None, "none", TRUE),
        TRUE)

\* the dependent T is registered with accept_skips_rules = False
NoSkipLexer ==
  build(skip(add(add(lex(One(PNewLine), NoError),
                     Visible("A"), One(PA), None, "none", TRUE, 0),
                 Visible("T"), One(PB),
                 DepList(<<Entry(rule(Visible("D"), One(PA), None, "none"))>>),
                 "none", FALSE, 0),
             One(PSpaces), None, "none", TRUE),
        TRUE)

\* the rules of DependentLexer, built with add_skips_in_rules = False
UnbuiltSkipLexer ==
  build(skip(add(add(lex(One(PNewLine), NoError),
                     Visible("A"), One(PA), None, "none", TRUE, 0),
                 Visible("T"), One(PB),
                 DepList(<<Entry(rule(Visible("D"), One(PA), None, "none"))>>),
                 "none", TRUE, 0),
             One(PSpaces), None, "none", TRUE),
        FALSE)

\* the chain of T (b) is one entry, the alternatives E1 (a+) and E2 (a)
AlternativesLexer ==
  build(skip(add(lex(One(PNewLine), NoError),
                 Visible("T"), One(PB),
                 DepList(<<EntryList(<<rule(Visible("E1"), One(PAs), None, "none"),
                                       rule(Visible("E2"), One(PA), None, "none")>>)>>),
                 "none", TRUE, 0),
             One(PSpaces), None, "none", TRUE),
        TRUE)

\* ID [ab]+ with a replacing transform, overridden by the later KW ab, whose
\* transform returns None
ShadowLexer ==
  build(skip(add(add(lex(One(PNewLine), NoError),
                     Visible("ID"), One(PWord), None, "first", TRUE, 0),
                 Visible("KW"), One(PAB), None, "keep", TRUE, 0),
             One(PSpaces), None, "none", TRUE),
        TRUE)

Engines == {KeywordLexer, DependentLexer, GroupLexer, FunctionLexer, LineLexer,
            EmptySkipLexer, CallbackLexer, TemplateLexer, ChainErrorLexer,
            MultiLexer, OverlapLexer, NoSkipLexer, UnbuiltSkipLexer,
            AlternativesLexer, ShadowLexer}

(***************************************************************************)
(* Init: a freshly constructed _lexer (_lexer.__init__)                    *)
(***************************************************************************)
NoHist == [text |-> << >>, pc |-> "none", stream |-> << >>, error |-> None,
           later |-> "none"]

\* a freshly constructed engine, one of the set es
InitOf(es) ==
  /\ \E e \in es :
       /\ rules = e.rules
       /\ rules_to_ignore = e.rules_to_ignore
       /\ custom_error = e.custom_error
  /\ original_text = << >>
  /\ text_to_process = Some(<< >>)
  /\ pos_in_str = 0
  /\ pos_in_line = 0
  /\ line = 0
  /\ deprecated_line_count = -1
  /\ consumed = << >>
  /\ token_stream = << >>
  /\ actual_token = None
  /\ dependent_token = None
  /\ tokens_matching_dependent = << >>
  /\ chain_idx = 0
  /\ frame = NoFrame
  /\ pc = "idle"
  /\ error = None
  /\ hist = NoHist
  /\ builder = None
  /\ returned = None
  /\ calls = << >>
  /\ compared = None

Init == InitOf(Engines)

Finished == pc \in {"returned", "raised"}

\* the outcome of the call that just finished
Outcome == [text |-> original_text, pc |-> pc, stream |-> Stream, error |-> error,
            later |-> "none"]

\* a call that forgot _reset_lexer's line counter
CallKeepingLine(text) ==
  /\ pc \in {"idle", "returned", "raised"}
  /\ pos_in_line' = 0
  /\ pos_in_str' = 0
  /\ UNCHANGED line
  /\ deprecated_line_count' = -1
  /\ consumed' = << >>
  /\ original_text' = text
  /\ text_to_process' = Some(text)
  /\ token_stream' = << >>
  /\ actual_token' = None
  /\ dependent_token' = None
  /\ tokens_matching_dependent' = << >>
  /\ chain_idx' = 0
  /\ frame' = NoFrame
  /\ error' = None
  /\ pc' = "while"
  /\ UNCHANGED engine

\* a call that forgot _reset_lexer's position in the text
CallKeepingPosition(text) ==
  /\ pc \in {"idle", "returned", "raised"}
  /\ pos_in_line' = 0
  /\ UNCHANGED pos_in_str
  /\ line' = 0
  /\ deprecated_line_count' = -1
  /\ consumed' = << >>
  /\ original_text' = text
  /\ text_to_process' = Some(text)
  /\ token_stream' = << >>
  /\ actual_token' = None
  /\ dependent_token' = None
  /\ tokens_matching_dependent' = << >>
  /\ chain_idx' = 0
  /\ frame' = NoFrame
  /\ error' = None
  /\ pc' = "while"
  /\ UNCHANGED engine

\* evaluate(text) up to the while loop: _reset_lexer, _load_text, the locals
Call(text) ==
  /\ pc \in {"idle", "returned", "raised"}
  /\ pos_in_line' = 0
  /\ pos_in_str' = 0
  /\ line' = 0
  /\ deprecated_line_count' = -1
  /\ consumed' = << >>
  /\ original_text' = text
  /\ text_to_process' = Some(text)
  /\ token_stream' = << >>
  /\ actual_token' = None
  /\ dependent_token' = None
  /\ tokens_matching_dependent' = << >>
  /\ chain_idx' = 0
  /\ frame' = NoFrame
  /\ error' = None
  /\ pc' = "while"
  /\ UNCHANGED engine

\* a client calls evaluate(text) on the engine it has just built
Evaluate ==
  /\ pc = "idle"
  /\ \E text \in Texts(MaxLen) : Call(text)
  /\ UNCHANGED hist

\* evaluate, the head of the while loop (lines 156-164)
While ==
  /\ pc = "while"
  /\ IF text_to_process = None
     THEN /\ pc' = "returned"
          /\ UNCHANGED <<frame, chain_idx>>
     ELSE IF dependent_token = None
     THEN /\ frame' = [rules |-> rules, ignore_rules |-> rules_to_ignore,
                       custom_error |-> custom_error, ret |-> "top"]
          /\ pc' = "gnt"
          /\ UNCHANGED chain_idx
     ELSE /\ chain_idx' = 1
          /\ pc' = "for"
          /\ UNCHANGED frame
  /\ UNCHANGED <<engine, fields, token_stream, actual_token, dependent_token,
                 tokens_matching_dependent, error, hist>>

\* evaluate, one round of the for loop over the chain (lines 164-224)
For ==
  /\ pc = "for"
  /\ LET dep   == dependent_token[1]
         chain == dep.dependencies.rules
     IN  IF chain_idx > Len(chain)
         THEN /\ token_stream' = Append(token_stream, GroupRef)
              /\ dependent_token' = None
              /\ frame' = [rules |-> rules, ignore_rules |-> rules_to_ignore,
                           custom_error |-> NoError, ret |-> "after"]
              /\ pc' = "gnt"
              /\ UNCHANGED chain_idx
         ELSE IF IsJumpLineEntry(chain, chain_idx)
         THEN /\ chain_idx' = chain_idx + 1
              /\ UNCHANGED <<token_stream, dependent_token, frame, pc>>
         ELSE /\ frame' = ChainStep(dep, chain[chain_idx])
              /\ pc' = "gnt"
              /\ UNCHANGED <<token_stream, dependent_token, chain_idx>>
  /\ rules' = IF pc' = "gnt" /\ frame'.ret = "chain"
              THEN RulesAfterStep(rules, dependent_token[1],
                                  dependent_token[1].dependencies.rules[chain_idx])
              ELSE rules
  /\ UNCHANGED <<rules_to_ignore, custom_error, builder, returned, calls, compared,
                 fields, actual_token, tokens_matching_dependent, error, hist>>

\* _get_next_token returns tok to evaluate, which files it (lines 213-231)
Return(tok) ==
  /\ frame' = NoFrame
  /\ IF frame.ret = "chain"
     THEN /\ tokens_matching_dependent' = Append(tokens_matching_dependent, tok)
          /\ chain_idx' = chain_idx + 1
          /\ pc' = "for"
          /\ UNCHANGED <<token_stream, actual_token, dependent_token>>
     ELSE /\ actual_token' = Some(tok)
          /\ pc' = "while"
          /\ UNCHANGED chain_idx
          /\ IF dependent_token = None /\ tok.is_dependent
             THEN /\ dependent_token' = Some(tok)
                  /\ tokens_matching_dependent' = Append(tokens_matching_dependent, tok)
                  /\ UNCHANGED token_stream
             ELSE /\ token_stream' = Append(token_stream, TokenEntry(tok))
                  /\ UNCHANGED <<dependent_token, tokens_matching_dependent>>

\* the match _get_next_token works on in this round of its loop
IgnoreMatch ==
  analyze_text(text_to_process[1], frame.ignore_rules, None, line, pos_in_line,
               deprecated_line_count)

RuleMatch ==
  analyze_text(text_to_process[1], frame.rules, Some(frame.ignore_rules), line,
               pos_in_line, IgnoreMatch.obsolete)

\* _get_next_token, one round of its while loop (lines 312-365).  The obsolete
\* line counter, which no decision reads, is followed up to the length of the
\* text: a call that consumes text in every round stays below it.
Gnt ==
  /\ pc = "gnt"
  /\ deprecated_line_count < Len(original_text)
  /\ UNCHANGED <<engine, original_text, hist>>
  /\ IF text_to_process = None
     THEN /\ Return(EOFToken(line))
          /\ UNCHANGED <<text_to_process, pos_in_str, pos_in_line, line,
                         deprecated_line_count, consumed, error>>
     ELSE \E ignored \in {IgnoreMatch} :
          IF ignored.fit_with_a_rule
          THEN \E tov \in {get_truly_original_value(ignored.token[1])} :
               \E j \in {_jump_and_remove(pos_in_str, pos_in_line,
                                          text_to_process[1], Len(tov), tov)} :
                 /\ consumed' = IF tov = << >> THEN consumed
                                ELSE Append(consumed, [text |-> tov, show |-> FALSE])
                 /\ pos_in_str' = j.pos_in_str
                 /\ pos_in_line' = j.pos_in_line
                 /\ text_to_process' = j.text_to_process
                 /\ deprecated_line_count' = ignored.obsolete
                 /\ UNCHANGED <<line, locals, pc, error>>
          ELSE \E matched \in {RuleMatch} :
          IF ~matched.fit_with_a_rule
          THEN /\ \E data \in {_get_error_data(text_to_process[1])} :
                    error' = Some([kind    |-> IF frame.custom_error.kind = "callback"
                                               THEN "AttributeError"
                                               ELSE "SyntaxError",
                                   custom  |-> frame.custom_error,
                                   data    |-> data,
                                   message |-> error_message(frame.custom_error,
                                                             data)])
               /\ pc' = "raised"
               /\ deprecated_line_count' = matched.obsolete
               /\ UNCHANGED <<text_to_process, pos_in_str, pos_in_line, line,
                              consumed, locals>>
          ELSE \E tok \in {matched.token[1]} :
               \E tov \in {get_truly_original_value(tok)} :
               \E new_line_matches \in {CountNL(tov)} :
               \E j \in {_jump_and_remove(pos_in_str,
                                          IF new_line_matches > 0 THEN 0 ELSE pos_in_line,
                                          text_to_process[1], Len(tov), tov)} :
                 /\ line' = line + new_line_matches
                 /\ consumed' = IF tov = << >> THEN consumed
                                ELSE Append(consumed, [text |-> tov, show |-> tok.show])
                 /\ pos_in_str' = j.pos_in_str
                 /\ pos_in_line' = j.pos_in_line
                 /\ text_to_process' = j.text_to_process
                 /\ deprecated_line_count' = matched.obsolete
                 /\ UNCHANGED error
                 /\ IF ~tok.show
                    THEN UNCHANGED <<locals, pc>>
                    ELSE Return(tok)

Next == Evaluate \/ While \/ For \/ Gnt

Spec == Init /\ [][Next]_vars

\* a client calls evaluate(text) with a short text
EvaluateShort ==
  /\ pc = "idle"
  /\ \E text \in Texts(MaxFairLen) : Call(text)
  /\ UNCHANGED hist

\* the steps evaluate takes by itself once called
Run == While \/ For \/ Gnt

NextFair == EvaluateShort \/ Run

\* evaluate runs to its end once called: the code is single-threaded and
\* nothing suspends it
FairSpec == Init /\ [][NextFair]_vars /\ WF_vars(Run)

(***************************************************************************)
(* Repeated calls on one engine.  hist remembers an earlier finished call. *)
(***************************************************************************)
\* a client calls evaluate again; hist is the call that just finished
EvaluateAgain ==
  /\ \E text \in Texts(MaxReuseLen) : Call(text)
  /\ hist' = IF Finished THEN Outcome ELSE hist

NextTwice == EvaluateAgain \/ While \/ For \/ Gnt

SpecTwice == Init /\ [][NextTwice]_vars

\* a client calls evaluate again; hist stays the first call of the engine and
\* hist.later tells whether a call after it failed part-way through its text
EvaluateLater ==
  /\ \E text \in Texts(MaxReuseLen) : Call(text)
  /\ hist' = IF ~Finished THEN hist
             ELSE IF hist.pc = "none" THEN Outcome
             ELSE IF pc = "raised" /\ pos_in_str > 0
                  THEN [hist EXCEPT !.later = "failed"]
                  ELSE hist

NextReuse == EvaluateLater \/ While \/ For \/ Gnt

SpecReuse == Init /\ [][NextReuse]_vars

(***************************************************************************)
(* Engines with ignore rules (lex._ignore).                                *)
(***************************************************************************)
InitIgnore == InitOf(IgnoreEngines)

\* a client calls evaluate on an engine with ignore rules
EvaluateIgnore ==
  /\ pc = "idle"
  /\ \E text \in Texts(MaxLen) \cup {TestIgnoreText} : Call(text)
  /\ UNCHANGED hist

NextIgnore == EvaluateIgnore \/ While \/ For \/ Gnt

SpecIgnore == InitIgnore /\ [][NextIgnore]_vars

(***************************************************************************)
(* The builder as a client drives it: lex(), then add, skip, load_premade, *)
(* _ignore and build in any order.  build hands the builder's own lists to *)
(* the engine, so a later builder call shows in the engine too.            *)
(***************************************************************************)
MaxCalls == 3

DepRule == rule(Visible("D"), One(PA), None, "none")

BuildNames == {Visible("A"), <<"C", FALSE>>}

\* a dependencies argument: absent, a list with a rule, an empty list, a dict
\* whose "rules" list is empty
BuildDeps == {None, DepList(<<Entry(DepRule)>>), DepList(<< >>),
              DepDict(<< >>, << >>)}

SkipPatterns == {One(PSpaces), One(PB)}

\* premade rules, each call handing over rule objects made for it (as in
\* test_load_premade); dependencies of a premade rule are a dict
PremadeTest == rule(Visible("TEST"), One(PA), None, "first")

PremadeVar == rule(Visible("VAR"), One(PB), DepDict(<<Entry(DepRule)>>, << >>), "none")

Premades == {Entry(PremadeTest), Entry(PremadeVar), EntryList(<<PremadeVar>>),
             EntryList(<<PremadeTest, PremadeVar>>)}

InitBuild ==
  /\ rules = << >>
  /\ rules_to_ignore = << >>
  /\ custom_error = NoError
  /\ original_text = << >>
  /\ text_to_process = Some(<< >>)
  /\ pos_in_str = 0
  /\ pos_in_line = 0
  /\ line = 0
  /\ deprecated_line_count = -1
  /\ consumed = << >>
  /\ token_stream = << >>
  /\ actual_token = None
  /\ dependent_token = None
  /\ tokens_matching_dependent = << >>
  /\ chain_idx = 0
  /\ frame = NoFrame
  /\ pc = "idle"
  /\ error = None
  /\ hist = NoHist
  /\ \E ce \in {NoError, TemplateError("engine")} :
       builder = Some(lex(One(PNewLine), ce))
  /\ returned = None
  /\ calls = << >>
  /\ compared = None

\* has build constructed an engine over the builder's lists
Built == rules # << >>

\* every rule that build gave the skip list holds that list itself, so it
\* follows what is appended to it later
RefreshSkips(rs, skips) ==
  [i \in 1..Len(rs) |-> IF rs[i].uses_skips THEN set_skip_rules(rs[i], Some(skips))
                        ELSE rs[i]]

\* the builder is now b2, and an engine built earlier sees the same lists
BuilderBecomes(b2) ==
  /\ builder' = Some(b2)
  /\ rules' = IF Built THEN b2.rules ELSE rules
  /\ rules_to_ignore' = IF Built THEN b2.ignore_r ELSE rules_to_ignore
  /\ UNCHANGED <<custom_error, fields, locals, pc, error, hist, compared>>

Add ==
  /\ Len(calls) < MaxCalls
  /\ \E name \in BuildNames, deps \in BuildDeps, accept \in BOOLEAN :
     \E b2 \in {add(builder[1], name, One(PA), deps, "none", accept, 0)} :
       /\ BuilderBecomes(b2)
       /\ returned' = [kind |-> "int", value |-> <<Position(b2)>>]
       /\ calls' = Append(calls, [op |-> "add", name |-> name[1], pattern |-> One(PA),
                                  flag |-> accept, deps |-> deps])

Skip ==
  /\ Len(calls) < MaxCalls
  /\ \E pattern \in SkipPatterns, deps \in BuildDeps, accept \in BOOLEAN :
     \E b1 \in {skip(builder[1], pattern, deps, "none", accept)} :
     \E b2 \in {[b1 EXCEPT !.rules = RefreshSkips(@, b1.skip_rules)]} :
       /\ BuilderBecomes(b2)
       /\ returned' = [kind |-> "int", value |-> <<Position(b2)>>]
       /\ calls' = Append(calls, [op |-> "skip", name |-> "SKIPPED",
                                  pattern |-> pattern, flag |-> accept,
                                  deps |-> deps])

LoadPremade ==
  /\ Len(calls) < MaxCalls
  /\ \E premade \in Premades, load_functions \in BOOLEAN :
     \E l \in {LoadAll(builder[1], premade.items, load_functions, << >>)} :
       /\ BuilderBecomes(l.b)
       /\ returned' = [kind |-> "list", value |-> l.pos_in_rule_list]
       /\ calls' = Append(calls, [op |-> "load_premade",
                                  name |-> [k \in DOMAIN premade.items |->
                                              premade.items[k].type],
                                  pattern |-> One(PA), flag |-> load_functions,
                                  deps |-> None])

Ignore ==
  /\ Len(calls) < MaxCalls
  /\ \E force_usage \in BOOLEAN :
     \E b2 \in {_ignore(builder[1], One(PSpaces), force_usage)} :
       /\ BuilderBecomes(b2)
       /\ returned' = IF force_usage
                      THEN [kind |-> "int", value |-> <<Position(b2)>>]
                      ELSE [kind |-> "Warning", value |-> << >>]
       /\ calls' = Append(calls, [op |-> "_ignore", name |-> "IGNORED",
                                  pattern |-> One(PSpaces), flag |-> force_usage,
                                  deps |-> None])

\* lex.build: set_skip_rules changes the builder's own rule objects, and the
\* engine is constructed over the builder's lists
Build ==
  /\ Len(calls) < MaxCalls
  /\ \E add_skips_in_rules \in BOOLEAN :
     \E e \in {build(builder[1], add_skips_in_rules)} :
       /\ builder' = Some([builder[1] EXCEPT !.rules = e.rules])
       /\ rules' = e.rules
       /\ rules_to_ignore' = e.rules_to_ignore
       /\ custom_error' = e.custom_error
       /\ returned' = [kind |-> "_lexer", value |-> << >>]
       /\ calls' = Append(calls, [op |-> "build", name |-> "_lexer",
                                  pattern |-> One(PNewLine),
                                  flag |-> add_skips_in_rules, deps |-> None])
       /\ UNCHANGED <<fields, locals, pc, error, hist, compared>>

NextBuild == Add \/ Skip \/ LoadPremade \/ Ignore \/ Build

SpecBuild == InitBuild /\ [][NextBuild]_vars

(***************************************************************************)
(* A client compares two tokens with == and != (as the tests do with the   *)
(* tokens evaluate returned and the ones they expect).                     *)
(***************************************************************************)
TokenTypes == {"A", "B", "C"}

TokenValues == {None, Some(<<"a">>), Some(<<"b">>), Some(<<"a", "b">>)}

\* tokens as the client makes them, with or without a line set
Tokens ==
  {token(t, v, None) : t \in TokenTypes, v \in TokenValues}
    \cup {set_line_where_finded(token(t, v, None), 0) :
            t \in TokenTypes, v \in TokenValues}

InitCompare == InitOf({KeywordLexer})

Compare ==
  /\ \E tok \in Tokens, other \in Tokens :
       compared' = Some([tok |-> tok, other |-> other,
                         eq |-> token_eq(tok, other),
                         ne |-> token_ne(tok, other)])
  /\ UNCHANGED <<rules, rules_to_ignore, custom_error, builder, returned, calls,
                 fields, locals, pc, error, hist>>

NextCompare == Compare

SpecCompare == InitCompare /\ [][NextCompare]_vars

(***************************************************************************)
(* One dependency list, or one premade rule, registered twice: the engine  *)
(* built from it, and then the engine built from objects registered once,  *)
(* evaluate the same text.                                                 *)
(***************************************************************************)
\* T (b) and U (ab) registered with one dependency list [D]
SharedAddLexer ==
  build(skip(add_shared(add(lex(One(PNewLine), NoError),
                            Visible("T"), One(PB), DepList(<<Entry(DepRule)>>),
                            "none", TRUE, 0),
                        2, Visible("U"), One(PAB)),
             One(PSpaces), None, "none", TRUE),
        TRUE)

\* T and U registered with a dependency list [D] each
SingleAddLexer ==
  build(skip(add(add(lex(One(PNewLine), NoError),
                     Visible("T"), One(PB), DepList(<<Entry(DepRule)>>),
                     "none", TRUE, 0),
                 Visible("U"), One(PAB), DepList(<<Entry(DepRule)>>),
                 "none", TRUE, 0),
             One(PSpaces), None, "none", TRUE),
        TRUE)

\* the premade VAR loaded twice
SharedPremadeLexer ==
  build(skip(load_premade_again(load_premade(lex(One(PNewLine), NoError),
                                             PremadeVar, TRUE),
                                2, TRUE),
             One(PSpaces), None, "none", TRUE),
        TRUE)

\* the premade VAR loaded once
SinglePremadeLexer ==
  build(skip(load_premade(lex(One(PNewLine), NoError), PremadeVar, TRUE),
             One(PSpaces), None, "none", TRUE),
        TRUE)

SharedPairs == {[shared |-> SharedAddLexer, single |-> SingleAddLexer],
                [shared |-> SharedPremadeLexer, single |-> SinglePremadeLexer]}

InitShare == InitOf({p.shared : p \in SharedPairs})

\* the client evaluates the text of the finished call on the engine built
\* from objects registered once; hist is the finished call
EvaluateSingle ==
  /\ Finished /\ hist = NoHist
  /\ \E p \in SharedPairs :
       /\ rules = p.shared.rules
       /\ rules' = p.single.rules
       /\ rules_to_ignore' = p.single.rules_to_ignore
       /\ custom_error' = p.single.custom_error
  /\ hist' = Outcome
  /\ pos_in_line' = 0
  /\ pos_in_str' = 0
  /\ line' = 0
  /\ deprecated_line_count' = -1
  /\ consumed' = << >>
  /\ text_to_process' = Some(original_text)
  /\ token_stream' = << >>
  /\ actual_token' = None
  /\ dependent_token' = None
  /\ tokens_matching_dependent' = << >>
  /\ chain_idx' = 0
  /\ frame' = NoFrame
  /\ error' = None
  /\ pc' = "while"
  /\ UNCHANGED <<original_text, builder, returned, calls, compared>>

NextShare == Evaluate \/ EvaluateSingle \/ While \/ For \/ Gnt

SpecShare == InitShare /\ [][NextShare]_vars

(***************************************************************************)
(* A client that loads premade rules, and loads rule objects it has        *)
(* already loaded once more.                                               *)
(***************************************************************************)
\* load_premade of rule objects made for the call; again = 0 in the call log
LoadFresh ==
  /\ Len(calls) < MaxCalls
  /\ \E premade \in Premades, load_functions \in BOOLEAN :
     \E l \in {LoadAll(builder[1], premade.items, load_functions, << >>)} :
       /\ BuilderBecomes(l.b)
       /\ returned' = [kind |-> "list", value |-> l.pos_in_rule_list]
       /\ calls' = Append(calls, [op |-> "load_premade", flag |-> load_functions,
                                  again |-> 0])

\* load_premade of the rule object loaded before to position again - 1
LoadAgain ==
  /\ Len(calls) < MaxCalls
  /\ \E i \in 2..Len(builder[1].rules), load_functions \in BOOLEAN :
     \E b2 \in {load_premade_again(builder[1], i, load_functions)} :
       /\ BuilderBecomes(b2)
       /\ returned' = [kind |-> "list", value |-> <<Len(builder[1].rules)>>]
       /\ calls' = Append(calls, [op |-> "load_premade", flag |-> load_functions,
                                  again |-> i])

NextPremade == LoadFresh \/ LoadAgain

SpecPremade == InitBuild /\ [][NextPremade]_vars

(***************************************************************************)
(* A client that calls rule.check_if_match_with_rule itself, as            *)
(* test_match_rule does, with line, column and line counter 0.             *)
(***************************************************************************)
\* the rules matched: one pattern, a transform, a capturing group, a list
MatchRules ==
  {rule(Visible("A"), One(PA), None, "none"),
   rule(Visible("AB"), One(PAB), None, "first"),
   set_regex_group(rule(Visible("NAMED"), One(PNamed), None, "none"), 1),
   rule(Visible("LIST"), Many(<<PBs, PAB>>), None, "none")}

\* the rules_to_ignore arguments: None, or a list of rules
IgnoreLists ==
  LET IgnoreRule(p) == rule(Hidden("IGNORE"), One(p), None, "none")
  IN  {None, Some(<< >>), Some(<<IgnoreRule(PSpaces)>>), Some(<<IgnoreRule(PB)>>),
       Some(<<IgnoreRule(PAB), IgnoreRule(PSpaces)>>),
       Some(<<IgnoreRule(PMaybeSpaces), IgnoreRule(PNewLine)>>)}

CheckIfMatch ==
  /\ calls = << >>
  /\ \E r \in MatchRules, rules_to_ignore_arg \in IgnoreLists, text \in Texts(MaxLen) :
       /\ returned' = [kind  |-> "match",
                       value |-> check_if_match_with_rule(r, text, rules_to_ignore_arg,
                                                          0, 0, 0)]
       /\ calls' = <<[op |-> "check_if_match_with_rule", rule |-> r, text |-> text,
                      rules_to_ignore |-> rules_to_ignore_arg]>>
  /\ UNCHANGED <<builder, rules, rules_to_ignore, custom_error, fields, locals, pc,
                 error, hist, compared>>

NextMatch == CheckIfMatch

SpecMatch == InitBuild /\ [][NextMatch]_vars

(***************************************************************************)
(* Properties                                                              *)
(***************************************************************************)
\* every token of the stream evaluate hands back, groups flattened
StreamTokens ==
  UNION {{Stream[i][j] : j \in DOMAIN Stream[i]} : i \in DOMAIN Stream}

\* does rule r match at the start of the text _get_next_token works on
Fits(r) ==
  check_if_match_with_rule(r, text_to_process[1], Some(frame.ignore_rules), line,
                           pos_in_line, 0).ok

Scanning == pc = "gnt" /\ text_to_process # None

WithoutObsolete(tok) == [tok EXCEPT !.deprecated = None]

\* C1: last-match-wins.  Whenever _get_next_token analyses the text against its
\* rule list, analyze_text reports a fit exactly when some rule of the list
\* matches, and then the rule and the token it reports are those of the LAST
\* rule of the list that matches.
C1_LastMatchWins ==
  Scanning =>
    LET rs == frame.rules
        M  == {i \in 1..Len(rs) : Fits(rs[i])}
    IN  IF M = {}
        THEN ~RuleMatch.fit_with_a_rule /\ RuleMatch.token = None
        ELSE /\ RuleMatch.fit_with_a_rule
             /\ RuleMatch.rule_that_matched = Some(rs[MaxOf(M)])
             /\ WithoutObsolete(RuleMatch.token[1]) =
                  WithoutObsolete(
                    check_if_match_with_rule(rs[MaxOf(M)], text_to_process[1],
                                             Some(frame.ignore_rules), line,
                                             pos_in_line, 0).token[1])

\* C1 witness: a token was emitted by a rule although an earlier rule of the
\* list matches the same text
C1_Witness ==
  /\ pc = "returned"
  /\ \E tok \in StreamTokens : \E i, j \in 1..Len(rules) :
       /\ j < i
       /\ rules[j].show
       /\ tok.parent = Some(rules[i])
       /\ FirstMatching(rules[j], get_not_processed_value(tok)) # 0

\* the entries of a dependency chain a token must be resolved for
ChainRules(tok) ==
  SelectSeq(tok.dependencies.rules,
            LAMBDA e : e.is_list \/ e.items[1].type # "JUMP_LINE")

\* C2: every grouped entry of the returned stream is the trigger followed by
\* exactly one token per rule of the trigger's own chain, in declared order.
C2_GroupShape ==
  pc = "returned" =>
    \A i \in DOMAIN token_stream :
      token_stream[i].group =>
        LET g     == Stream[i]
            chain == ChainRules(g[1])
        IN  /\ g[1].is_dependent
            /\ Len(g) = 1 + Len(chain)
            /\ \A k \in 1..Len(chain) :
                 /\ g[k + 1].parent # None
                 /\ \E n \in DOMAIN chain[k].items :
                      g[k + 1].parent[1] = chain[k].items[n]

IsEOF(tok) == tok.type = "EOF" /\ tok.parent = None

\* C3: no entry of the returned stream is the internal EOF sentinel.
C3_NoEOFInStream ==
  pc = "returned" => \A tok \in StreamTokens : ~IsEOF(tok)

\* C4: once a dependent token has been recognized, evaluate returns only with
\* its group emitted and every chain step resolved: no trigger is left pending,
\* every trigger recognized is followed by the tokens of its chain rules, and
\* there is one group entry per trigger.
C4_GroupCompleteOrRaise ==
  pc = "returned" =>
    /\ dependent_token = None
    /\ \A k \in DOMAIN tokens_matching_dependent :
         tokens_matching_dependent[k].is_dependent =>
           LET chain == ChainRules(tokens_matching_dependent[k])
           IN  \A m \in 1..Len(chain) :
                 /\ k + m <= Len(tokens_matching_dependent)
                 /\ tokens_matching_dependent[k + m].parent # None
                 /\ \E n \in DOMAIN chain[m].items :
                      tokens_matching_dependent[k + m].parent[1] = chain[m].items[n]
    /\ Cardinality({i \in DOMAIN token_stream : token_stream[i].group}) =
         Cardinality({k \in DOMAIN tokens_matching_dependent :
                        tokens_matching_dependent[k].is_dependent})

\* no ignore rule and no rule of the active list matches the remaining text
NothingFits ==
  /\ Scanning
  /\ Len(text_to_process[1]) > 0
  /\ ~IgnoreMatch.fit_with_a_rule
  /\ \A i \in 1..Len(frame.rules) : ~Fits(frame.rules[i])

\* C5: when the remaining text is non-empty and nothing matches it, evaluate
\* raises a SyntaxError carrying the current line, appends no token, and does
\* nothing after the failure.
C5_NoMatchRaises ==
  [][/\ NothingFits =>
          /\ pc' = "raised"
          /\ error' # None
          /\ error'[1].kind = "SyntaxError"
          /\ error'[1].data.line = line
          /\ token_stream' = token_stream
          /\ tokens_matching_dependent' = tokens_matching_dependent
     /\ pc = "raised" => pc' = "while"]_vars

\* the rule whose match _get_next_token consumes in this round, and the text
\* its pattern matched (group 0)
Winner == IF IgnoreMatch.fit_with_a_rule THEN IgnoreMatch.rule_that_matched[1]
          ELSE RuleMatch.rule_that_matched[1]

WholeMatch ==
  ReMatch(Winner.regex[FirstMatching(Winner, text_to_process[1])],
          text_to_process[1])

Consuming == Scanning /\ (IgnoreMatch.fit_with_a_rule \/ RuleMatch.fit_with_a_rule)

\* C6: every token of the stream was produced by a visible rule, and a match of
\* an invisible rule is consumed without a token and advances the position by
\* the length of the matched text.
C6_InvisibleNeverEmitted ==
  /\ [](\A tok \in StreamTokens : tok.parent # None => tok.parent[1].show)
  /\ [][(Consuming /\ ~Winner.show) =>
           /\ pos_in_str' = pos_in_str + Len(WholeMatch.g0)
           /\ token_stream' = token_stream
           /\ tokens_matching_dependent' = tokens_matching_dependent]_vars

\* the token _get_next_token has just handed to evaluate
Returned ==
  IF frame.ret = "chain"
  THEN tokens_matching_dependent'[Len(tokens_matching_dependent')]
  ELSE actual_token'[1]

\* C7: for a rule with capturing group k > 0 the token's value is the text of
\* group k, the position advances by the length of the whole match, and the
\* whole match is what leaves the remaining buffer.
C7_CapturingGroup ==
  [][(Consuming /\ Winner.regex_group > 0) =>
        /\ pos_in_str' = pos_in_str + Len(WholeMatch.g0)
        /\ pos_in_str' < Len(original_text) =>
             /\ text_to_process' # None
             /\ WholeMatch.g0 \o text_to_process'[1] = text_to_process[1]
        /\ pos_in_str' >= Len(original_text) => text_to_process' = None
        /\ Winner.show => Returned.value = Some(Group(WholeMatch, Winner.regex_group))]_vars

\* C7 witness: a token whose value is a capturing group narrower than the
\* match was emitted and the position moved past the whole match
C7_Witness ==
  /\ pc = "returned"
  /\ \E tok \in StreamTokens :
       /\ tok.parent # None
       /\ tok.parent[1].regex_group > 0
       /\ tok.truly_original_value # None
       /\ Len(tok.value[1]) < Len(tok.truly_original_value[1])
       /\ pos_in_str >= tok.col[1] + Len(tok.truly_original_value[1])

\* what a caller compares of a token: type, value, line and column
Seen(tok) == <<tok.type, tok.value, tok.line, tok.col>>

SeenStream(st) == [i \in DOMAIN st |-> [j \in DOMAIN st[i] |-> Seen(st[i][j])]]

SameCall == Finished /\ hist.pc # "none" /\ hist.text = original_text

\* C8: evaluate is a function of (rules, text): a call with the text of the
\* call before it on the same engine ends the same way, with a stream of the
\* same length whose entries agree on type, value, line and column, or with a
\* failure with the same line, position and snippet.
C8_Deterministic ==
  SameCall =>
    /\ pc = hist.pc
    /\ pc = "returned" =>
         /\ Len(Stream) = Len(hist.stream)
         /\ SeenStream(Stream) = SeenStream(hist.stream)
    /\ pc = "raised" =>
         /\ error[1].kind = hist.error[1].kind
         /\ error[1].data = hist.error[1].data

\* C8 witness: the same text was evaluated twice in a row and produced tokens
\* on a later line
C8_Witness ==
  /\ SameCall
  /\ pc = "returned"
  /\ \E tok \in StreamTokens : tok.line # None /\ tok.line[1] > 0 /\ tok.parent # None

\* C9: calls are independent: a call on an engine that has run other calls,
\* whether they returned or failed part-way, gives exactly the result the first
\* call of the engine (a freshly built engine) gave for the same text.
C9_Independent ==
  SameCall =>
    /\ pc = hist.pc
    /\ Stream = hist.stream
    /\ error = hist.error

\* C9 witness: a call repeated the text of the engine's first call after a call
\* in between had failed part-way through its text
C9_Witness ==
  /\ SameCall
  /\ hist.later = "failed"
  /\ Len(original_text) > 0
  /\ pc = "returned"

\* C10: every call of evaluate eventually returns or raises.
C10_Terminates == (pc = "while") ~> Finished

\* C11: each consumed match increases the line counter by the number of line
\* breaks in its raw matched text, and the line recorded on a token that is
\* emitted equals the number of line breaks of the source text in front of it.
C11_LineCounting ==
  [][Consuming =>
       /\ line' = line + CountNL(WholeMatch.g0)
       /\ (~IgnoreMatch.fit_with_a_rule /\ Winner.show) =>
            Returned.line = Some(CountNL(SubStr(original_text, 1, pos_in_str)))]_vars

\* C12: after a consumed match whose raw text holds a line break the column
\* counter is 0, and a token that starts right after a line break of the source
\* is recorded at column 0.
C12_ColumnReset ==
  [][Consuming =>
       /\ CountNL(WholeMatch.g0) > 0 => pos_in_line' = 0
       /\ ( /\ ~IgnoreMatch.fit_with_a_rule /\ Winner.show
            /\ pos_in_str > 0 /\ original_text[pos_in_str] = NL )
          => Returned.col = Some(0)]_vars

\* C13: a match of a rule with capturing group 0 whose transform returns a
\* replacement value advances both positions by the length of the raw matched
\* text, and the raw matched text is what leaves the buffer.
C13_RawAdvance ==
  [][( /\ Consuming /\ ~IgnoreMatch.fit_with_a_rule
       /\ Winner.regex_group = 0
       /\ CallFunction(Winner.match_function, WholeMatch.g0) # None ) =>
        /\ pos_in_str' = pos_in_str + Len(WholeMatch.g0)
        /\ CountNL(WholeMatch.g0) = 0 =>
             pos_in_line' = pos_in_line + Len(WholeMatch.g0)
        /\ text_to_process' # None =>
             WholeMatch.g0 \o text_to_process'[1] = text_to_process[1]]_vars

\* does some ignore pattern of the engine match somewhere inside text
HoldsIgnored(text) ==
  \E i \in DOMAIN rules_to_ignore : \E p \in 0..Len(text) :
    ReMatchAt(rules_to_ignore[i].regex[1], text, p).ok

\* C14: test_ignore's lexer on 'tenoisestt' returns exactly three TEST tokens
\* of value 'test'; with ignore rules declared no token of the output holds an
\* occurrence of an ignore pattern, and when evaluate drops the buffer as
\* exhausted the last match consumed is all that was left of the input.
C14_IgnoreRules ==
  /\ [](( /\ rules = TestIgnoreLexer.rules /\ original_text = TestIgnoreText
          /\ Finished ) =>
          /\ pc = "returned"
          /\ Len(Stream) = 3
          /\ \A i \in 1..3 : /\ Len(Stream[i]) = 1
                             /\ Stream[i][1].type = "TEST"
                             /\ Stream[i][1].value = Some(<<"t", "e", "s", "t">>))
  /\ [](\A tok \in StreamTokens : tok.value # None => ~HoldsIgnored(tok.value[1]))
  /\ [][(pc = "gnt" /\ text_to_process # None /\ text_to_process' = None) =>
          pos_in_str' - pos_in_str = Len(text_to_process[1])]_vars

\* C15: on an engine built with an engine-level custom error, every failure to
\* match at the top level (outside a dependency chain) is reported through that
\* custom error, also for the text right after a completed dependent group.
C15_EngineErrorEverywhere ==
  ( /\ pc = "raised" /\ frame.ret # "chain"
    /\ custom_error.kind # "none" ) =>
      error[1].custom = custom_error

\* the entry of the chain evaluate is resolving
FailingEntry == dependent_token[1].dependencies.rules[chain_idx]

\* C16: a failure of a chain step is raised with the custom error of the chain
\* rule of that step if it has one, otherwise with the engine's custom error,
\* otherwise with the default error; for a step that is a list of alternatives
\* the error is one of the alternatives' own or the engine's, never that of a
\* rule of another step.
C16_ChainStepError ==
  (pc = "raised" /\ frame.ret = "chain") =>
    /\ ~FailingEntry.is_list =>
         error[1].custom = IF FailingEntry.items[1].custom_error # NoError
                           THEN FailingEntry.items[1].custom_error
                           ELSE custom_error
    /\ FailingEntry.is_list =>
         error[1].custom \in
           {FailingEntry.items[k].custom_error : k \in DOMAIN FailingEntry.items}
             \cup {custom_error}

\* C16 witness: a chain step failed at a rule that has its own custom error,
\* on an engine that has another one, and the rule's own error was raised
C16_Witness ==
  /\ pc = "raised" /\ frame.ret = "chain"
  /\ ~FailingEntry.is_list
  /\ FailingEntry.items[1].custom_error # NoError
  /\ custom_error # NoError
  /\ FailingEntry.items[1].custom_error # custom_error
  /\ error[1].custom = FailingEntry.items[1].custom_error

\* C17: when nothing matches and the custom error is a callback that returns,
\* the callback has been invoked once, with the line, the position and the
\* offending text (the remaining text up to its first line break), and the call
\* ends in a failure in that same step: no text is consumed, no token is filed,
\* and evaluate takes no further step and returns no stream.
C17_CallbackStillFails ==
  [][/\ (NothingFits /\ frame.custom_error.kind = "callback") =>
          /\ error = None /\ error' # None
          /\ error'[1].custom = frame.custom_error
          /\ error'[1].data.line = line
          /\ error'[1].data.pos = pos_in_str
          /\ \E n \in 0..Len(text_to_process[1]) :
               /\ error'[1].data.text = SubStr(text_to_process[1], 1, n)
               /\ CountNL(error'[1].data.text) = 0
               /\ n < Len(text_to_process[1]) => text_to_process[1][n + 1] = NL
          /\ pc' = "raised"
          /\ pos_in_str' = pos_in_str
          /\ text_to_process' = text_to_process
          /\ token_stream' = token_stream
          /\ tokens_matching_dependent' = tokens_matching_dependent
     /\ (pc = "raised" /\ error[1].custom.kind = "callback") => FALSE]_vars

\* C17 witness: a call on an engine with a callback error has failed after it
\* had consumed part of its text
C17_Witness ==
  /\ pc = "raised"
  /\ error[1].custom.kind = "callback"
  /\ error[1].data.pos > 0
  /\ Len(error[1].data.text) > 0

\* C18: when the rule whose match is consumed has a list of patterns, the
\* match is that of the first pattern of the list that matches at the start of
\* the remaining text: no earlier pattern matches there, the position advances
\* by that match and a visible rule's token carries it.
C18_FirstPatternWins ==
  [][( /\ Consuming /\ ~IgnoreMatch.fit_with_a_rule
       /\ RuleMatch.rule_that_matched[1].regex_is_array ) =>
       LET r    == RuleMatch.rule_that_matched[1]
           text == text_to_process[1]
       IN  \E k \in DOMAIN r.regex :
             /\ ReMatchAt(r.regex[k], text, 0).ok
             /\ \A j \in 1..(k - 1) : ~ReMatchAt(r.regex[j], text, 0).ok
             /\ pos_in_str' = pos_in_str + Len(ReMatchAt(r.regex[k], text, 0).g0)
             /\ r.show => Returned.value = Some(ReMatchAt(r.regex[k], text, 0).g0)]_vars

\* C18 witness: on a text that starts with ab the rule with the patterns
\* a, ab, b+ produced the token a, the match of its first pattern
C18_Witness ==
  /\ pc = "returned"
  /\ Len(original_text) >= 2
  /\ original_text[1] = "a" /\ original_text[2] = "b"
  /\ \E tok \in StreamTokens :
       /\ tok.parent # None
       /\ tok.parent[1].regex_is_array
       /\ tok.col = Some(0)
       /\ tok.value = Some(<<"a">>)

\* the builder call that this step makes
Called(op) == calls' # calls /\ calls'[Len(calls')].op = op

\* C19: position 0 of the builder's main list is always the invisible JUMP_LINE
\* rule the constructor installed, and what add and skip return, and every
\* entry of the list load_premade returns, is the index of the main list at
\* which the rule registered by that call sits.
C19_PositionsReturned ==
  /\ [](builder # None =>
          /\ Len(builder[1].rules) >= 1
          /\ builder[1].rules[1].type = "JUMP_LINE"
          /\ ~builder[1].rules[1].show
          /\ builder[1].rules[1].regex = <<PNewLine>>)
  /\ [][/\ (Called("add") \/ Called("skip")) =>
             /\ returned'.kind = "int"
             /\ returned'.value[1] + 1 = Len(builder'[1].rules)
             /\ returned'.value[1] + 1 > Len(builder[1].rules)
             /\ builder'[1].rules[returned'.value[1] + 1].type =
                  calls'[Len(calls')].name
        /\ Called("load_premade") =>
             /\ returned'.kind = "list"
             /\ Len(returned'.value) = Len(calls'[Len(calls')].name)
             /\ Len(builder'[1].rules) = Len(builder[1].rules) + Len(returned'.value)
             /\ \A k \in DOMAIN returned'.value :
                  /\ returned'.value[k] + 1 = Len(builder[1].rules) + k
                  /\ builder'[1].rules[returned'.value[k] + 1].type =
                       calls'[Len(calls')].name[k]]_vars

\* C19 witness: after a skip and a build, load_premade of a list of two rules
\* returned two positions
C19_Witness ==
  /\ Len(calls) = 3
  /\ calls[1].op = "skip" /\ calls[2].op = "build" /\ calls[3].op = "load_premade"
  /\ returned.kind = "list"
  /\ returned.value = <<2, 3>>

\* the rules of a list that lex.skip registered
SkippedOf(rs) == SelectSeq(rs, LAMBDA r : r.type = "SKIPPED")

\* rule._complete_equal
_complete_equal(r, other) ==
  /\ r.type = other.type
  /\ r.regex = other.regex
  /\ r.dependencies = other.dependencies
  /\ r.match_function = other.match_function
  /\ r.show = other.show

\* the skip calls made so far, in order
SkipCalls == SelectSeq(calls, LAMBDA c : c.op = "skip")

\* C20: a skip call appends one invisible SKIPPED rule to the main list and one
\* rule equal to it to the skip list; no other call touches the skip list; the
\* skip list has one entry per skip call, in call order, and its entries match
\* the SKIPPED rules of the main list one-to-one.
C20_SkipListMirrors ==
  /\ [][/\ Called("skip") =>
             /\ Len(builder'[1].rules) = Len(builder[1].rules) + 1
             /\ Len(builder'[1].skip_rules) = Len(builder[1].skip_rules) + 1
             /\ SubSeq(builder'[1].skip_rules, 1, Len(builder[1].skip_rules)) =
                  builder[1].skip_rules
             /\ builder'[1].rules[Len(builder'[1].rules)].type = "SKIPPED"
             /\ ~builder'[1].rules[Len(builder'[1].rules)].show
             /\ _complete_equal(builder'[1].rules[Len(builder'[1].rules)],
                                builder'[1].skip_rules[Len(builder'[1].skip_rules)])
        /\ (calls' # calls /\ ~Called("skip")) =>
             builder'[1].skip_rules = builder[1].skip_rules]_vars
  /\ [](builder # None =>
          /\ Len(builder[1].skip_rules) = Len(SkipCalls)
          /\ Len(SkippedOf(builder[1].rules)) = Len(SkipCalls)
          /\ \A i \in DOMAIN builder[1].skip_rules :
               /\ builder[1].skip_rules[i].regex = SkipCalls[i].pattern.pats
               /\ _complete_equal(SkippedOf(builder[1].rules)[i],
                                  builder[1].skip_rules[i]))

\* C20 witness: the same pattern was declared as a skip twice, the calls
\* separated by a build, and the skip list holds it twice
C20_Witness ==
  /\ Len(calls) = 3
  /\ calls[1].op = "skip" /\ calls[2].op = "build" /\ calls[3].op = "skip"
  /\ calls[1].pattern = calls[3].pattern
  /\ Len(builder[1].skip_rules) = 2
  /\ builder[1].skip_rules[1].regex = builder[1].skip_rules[2].regex
  /\ builder[1].rules[2].uses_skips

\* the flag argument of the builder call that this step makes
CalledWith(op, flag) == Called(op) /\ calls'[Len(calls')].flag = flag

\* C21: right after build(add_skips_in_rules=True) a rule of the main list
\* carries skip rules exactly when it accepts skips, and what it carries is the
\* whole skip list, whatever the order of the add and skip calls; as long as no
\* build(True) was made no rule carries skip rules.
C21_BuildAttachesSkips ==
  /\ [][CalledWith("build", TRUE) =>
          \A i \in DOMAIN builder'[1].rules :
            /\ builder'[1].rules[i].uses_skips = builder'[1].rules[i].accept_skips
            /\ builder'[1].rules[i].uses_skips =>
                 builder'[1].rules[i].skips_rules = Some(builder'[1].skip_rules)
            /\ rules'[i] = builder'[1].rules[i]]_vars
  /\ []((builder # None /\ \A c \in DOMAIN calls :
                             ~(calls[c].op = "build" /\ calls[c].flag)) =>
          \A i \in DOMAIN builder[1].rules : ~builder[1].rules[i].uses_skips)

\* C21 witness: build(True) came after a rule that accepts skips and a skip
\* declared after it, and the rule carries that skip
C21_Witness ==
  /\ Len(calls) = 3
  /\ calls[1].op = "add" /\ calls[1].flag
  /\ calls[2].op = "skip"
  /\ calls[3].op = "build" /\ calls[3].flag
  /\ builder[1].rules[2].uses_skips
  /\ builder[1].rules[2].skips_rules = Some(builder[1].skip_rules)
  /\ Len(builder[1].skip_rules) = 1
  /\ rules[2].uses_skips

\* the rule that the add or skip call of this step has registered
Registered == builder'[1].rules[Len(builder'[1].rules)]

\* C22: a rule registered through add or skip with a dependencies argument that
\* is not None is dependent, also when the argument holds no rule: it has a
\* chain, the builder's line-break rule is at the head of the chain, and a token
\* made by the rule is a dependent token (which evaluate files as a group).
C22_NonNullIsDependent ==
  [][( /\ Called("add") \/ Called("skip")
       /\ calls'[Len(calls')].deps # None ) =>
        /\ Registered.dependencies # None
        /\ Len(Registered.dependencies[1].rules) >= 1
        /\ Registered.dependencies[1].rules[1] = Entry(builder[1].rules[1])
        /\ token(Registered.type, None, Registered.dependencies).is_dependent]_vars

\* C23: every rule of the builder's main list that has a dependency chain has
\* the builder's line-break rule at position 0 of that chain.
C23_ChainStartsWithJumpLine ==
  builder # None =>
    \A i \in DOMAIN builder[1].rules :
      builder[1].rules[i].dependencies # None =>
        /\ Len(builder[1].rules[i].dependencies[1].rules) >= 1
        /\ builder[1].rules[i].dependencies[1].rules[1] = Entry(builder[1].rules[1])

\* C23 witness: add, skip and load_premade have each registered a rule with a
\* chain of more than the line-break rule
C23_Witness ==
  /\ Len(calls) = 3
  /\ calls[1].op = "add" /\ calls[2].op = "skip" /\ calls[3].op = "load_premade"
  /\ Len(builder[1].rules) = 4
  /\ \A i \in 2..4 : /\ builder[1].rules[i].dependencies # None
                     /\ Len(builder[1].rules[i].dependencies[1].rules) = 2

\* C24: two tokens compare equal exactly when their types are equal and their
\* values are equal, and != gives the negation of ==.
C24_TokenEquality ==
  compared # None =>
    /\ compared[1].eq = ( /\ compared[1].tok.type = compared[1].other.type
                          /\ compared[1].tok.value = compared[1].other.value )
    /\ compared[1].ne = ~compared[1].eq

\* C25: _ignore without force_usage ends in an error and leaves the builder's
\* main list, ignore list and skip list as they were; with force_usage it
\* appends exactly one rule, of the given pattern, to the ignore list and
\* leaves the main list and the skip list as they were.
C25_IgnoreGuarded ==
  [][/\ CalledWith("_ignore", FALSE) =>
          /\ returned'.kind = "Warning"
          /\ builder'[1].rules = builder[1].rules
          /\ builder'[1].ignore_r = builder[1].ignore_r
          /\ builder'[1].skip_rules = builder[1].skip_rules
     /\ CalledWith("_ignore", TRUE) =>
          /\ returned'.kind = "int"
          /\ Len(builder'[1].ignore_r) = Len(builder[1].ignore_r) + 1
          /\ SubSeq(builder'[1].ignore_r, 1, Len(builder[1].ignore_r)) =
               builder[1].ignore_r
          /\ builder'[1].ignore_r[Len(builder'[1].ignore_r)].regex =
               calls'[Len(calls')].pattern.pats
          /\ builder'[1].rules = builder[1].rules
          /\ builder'[1].skip_rules = builder[1].skip_rules]_vars

\* C25 witness: after an add, an _ignore without force_usage failed and a
\* forced one then registered its pattern
C25_Witness ==
  /\ Len(calls) = 3
  /\ calls[1].op = "add"
  /\ calls[2].op = "_ignore" /\ ~calls[2].flag
  /\ calls[3].op = "_ignore" /\ calls[3].flag
  /\ Len(builder[1].ignore_r) = 1
  /\ Len(builder[1].rules) = 2

\* _get_next_token is analysing text for a step of a dependency chain
ChainScanning == Scanning /\ frame.ret = "chain"

\* the skip rules the dependent token carries into its chain steps
StepSkips == IF dependent_token[1].uses_skips
             THEN dependent_token[1].skips_rules[1] ELSE << >>

\* C26: a step of a dependency chain is matched against the line-break rule,
\* the injected skip rules and the chain rule of the step, in that order, and
\* against nothing else; text that none of these matches makes the step fail,
\* also when a rule of the main list matches it; a line break or a skip match
\* met in a step is consumed without a token, so that no token of a group comes
\* from the line-break rule or a skip rule; and when the chain rule matches,
\* the step's token is the chain rule's, whatever the skip rules match.
C26_ChainStepSubset ==
  /\ []((pc = "gnt" /\ frame.ret = "chain" /\ ~FailingEntry.is_list) =>
          /\ Len(frame.rules) = 2 + Len(StepSkips)
          /\ frame.rules[1] = rules[1]
          /\ frame.rules[1].type = "JUMP_LINE"
          /\ {frame.rules[i] : i \in 2..(Len(frame.rules) - 1)} =
               {StepSkips[i] : i \in DOMAIN StepSkips}
          /\ frame.rules[Len(frame.rules)] = FailingEntry.items[1])
  /\ [](\A i \in DOMAIN tokens_matching_dependent :
          LET tok == tokens_matching_dependent[i]
          IN  tok.parent # None =>
                tok.parent[1].type \notin {"JUMP_LINE", "SKIPPED"})
  /\ [][/\ (ChainScanning /\ Len(text_to_process[1]) > 0
              /\ \A i \in DOMAIN frame.rules : ~Fits(frame.rules[i])) =>
             /\ pc' = "raised"
             /\ tokens_matching_dependent' = tokens_matching_dependent
        /\ (ChainScanning /\ Consuming
              /\ Winner.type \in {"JUMP_LINE", "SKIPPED"}) =>
             /\ pc' = "gnt"
             /\ frame' = frame
             /\ chain_idx' = chain_idx
             /\ tokens_matching_dependent' = tokens_matching_dependent
             /\ token_stream' = token_stream
        /\ (ChainScanning /\ ~FailingEntry.is_list
              /\ Fits(FailingEntry.items[1])) =>
             /\ pc' = "for"
             /\ Len(tokens_matching_dependent') = Len(tokens_matching_dependent) + 1
             /\ tokens_matching_dependent'[Len(tokens_matching_dependent')].parent =
                  Some(FailingEntry.items[1])]_vars

\* C26 witness: a group was returned whose chain token lies on a later line
\* than its trigger, so a line break was consumed between them, and whose
\* chain token's text is matched by a skip rule of the trigger as well
C26_Witness ==
  /\ pc = "returned"
  /\ \E i \in DOMAIN token_stream :
       /\ token_stream[i].group
       /\ Len(Stream[i]) = 2
       /\ LET trigger == Stream[i][1]
              step    == Stream[i][2]
          IN  /\ step.parent = Some(trigger.dependencies.rules[2].items[1])
              /\ step.line[1] > trigger.line[1]
              /\ trigger.uses_skips
              /\ \E k \in DOMAIN trigger.skips_rules[1] :
                   ReMatch(trigger.skips_rules[1][k].regex[1], step.value[1]).ok

\* the rule was registered with accept_skips_rules = False, or build attached
\* no skip rules to it (add_skips_in_rules = False)
WithoutSkips(r) == ~r.accept_skips \/ ~r.uses_skips

\* of the engine's rules and the rules of the step, only skip rules match the
\* remaining text
OnlySkipFits ==
  /\ \E i \in DOMAIN rules : rules[i].type = "SKIPPED" /\ Fits(rules[i])
  /\ \A i \in DOMAIN rules : rules[i].type # "SKIPPED" => ~Fits(rules[i])
  /\ \A k \in DOMAIN FailingEntry.items : ~Fits(FailingEntry.items[k])

\* C27: when the trigger's rule was registered with accept_skips_rules = False,
\* or the engine was built with add_skips_in_rules = False, no step of its chain
\* is matched against a skip rule, and text that only a skip rule matches,
\* lying where a chain token is expected, ends the call in a failure with
\* nothing added to the group.
C27_NoSkipsInChain ==
  /\ []((pc = "gnt" /\ frame.ret = "chain"
           /\ WithoutSkips(dependent_token[1].parent[1])) =>
          \A i \in DOMAIN frame.rules : frame.rules[i].type # "SKIPPED")
  /\ [][(ChainScanning /\ WithoutSkips(dependent_token[1].parent[1])
           /\ OnlySkipFits) =>
             /\ pc' = "raised"
             /\ error' # None
             /\ tokens_matching_dependent' = tokens_matching_dependent
             /\ token_stream' = token_stream]_vars

\* C27 witness: on an engine whose trigger was registered with
\* accept_skips_rules = False, a chain step failed on text that the engine's
\* skip rule matches
C27_Witness ==
  /\ pc = "raised" /\ frame.ret = "chain"
  /\ ~dependent_token[1].parent[1].accept_skips
  /\ text_to_process # None
  /\ \E i \in DOMAIN rules : rules[i].type = "SKIPPED" /\ Fits(rules[i])
  /\ Len(tokens_matching_dependent) = 1

\* the alternatives of the entry that match the remaining text
FittingAlternatives == {k \in DOMAIN FailingEntry.items : Fits(FailingEntry.items[k])}

\* C28: a chain entry that is a list of alternatives is resolved in one step:
\* its rule list is the line-break rule, then the injected skip rules, then all
\* the alternatives in declared order; when alternatives match, the token filed
\* is that of the last matching alternative; and the step adds exactly one token
\* to the group and moves on to the next entry.
C28_ListEntryOneToken ==
  /\ []((pc = "gnt" /\ frame.ret = "chain" /\ FailingEntry.is_list) =>
          LET n == Len(FailingEntry.items)
              m == Len(frame.rules)
          IN  /\ m >= n + 1
              /\ frame.rules[1] = rules[1]
              /\ frame.rules[1].type = "JUMP_LINE"
              /\ {frame.rules[i] : i \in 2..(m - n)} =
                   {StepSkips[i] : i \in DOMAIN StepSkips}
              /\ SubSeq(frame.rules, m - n + 1, m) = FailingEntry.items)
  /\ [][/\ (ChainScanning /\ FailingEntry.is_list /\ FittingAlternatives # {}) =>
             /\ pc' = "for"
             /\ chain_idx' = chain_idx + 1
             /\ Len(tokens_matching_dependent') = Len(tokens_matching_dependent) + 1
             /\ tokens_matching_dependent'[Len(tokens_matching_dependent')].parent =
                  Some(FailingEntry.items[MaxOf(FittingAlternatives)])
        /\ (pc = "gnt" /\ frame.ret = "chain" /\ FailingEntry.is_list
              /\ tokens_matching_dependent' # tokens_matching_dependent) =>
             /\ pc' = "for"
             /\ chain_idx' = chain_idx + 1
             /\ SubSeq(tokens_matching_dependent', 1, Len(tokens_matching_dependent)) =
                  tokens_matching_dependent
             /\ Len(tokens_matching_dependent') = Len(tokens_matching_dependent) + 1]_vars

\* C28 witness: a group was returned whose entry of two alternatives, reached
\* over a skipped blank, matched with both and gave the one token of the later
C28_Witness ==
  /\ pc = "returned"
  /\ \E i \in DOMAIN token_stream :
       /\ token_stream[i].group
       /\ Len(Stream[i]) = 2
       /\ LET trigger == Stream[i][1]
              step    == Stream[i][2]
              entry   == trigger.dependencies.rules[2]
          IN  /\ entry.is_list /\ Len(entry.items) = 2
              /\ step.parent = Some(entry.items[2])
              /\ ReMatch(entry.items[1].regex[1], step.value[1]).ok
              /\ step.col[1] > trigger.col[1] + 1

AllRules ==
  {rules[i] : i \in DOMAIN rules} \cup
  UNION {UNION {{e.items[k] : k \in DOMAIN e.items} :
                  e \in {rules[i].dependencies[1].rules[j] :
                           j \in DOMAIN rules[i].dependencies[1].rules}} :
           i \in {i \in DOMAIN rules : rules[i].dependencies # None}}

\* no ignore rule is declared and no rule has a transform that replaces the value
PlainEngine ==
  /\ rules_to_ignore = << >>
  /\ \A r \in AllRules : r.match_function # "first"

\* the part of the original text from the absolute position on
Rest == SubStr(original_text, pos_in_str + 1, Len(original_text))

\* C30: with no ignore rule and no value-replacing transform, during a call the
\* remaining buffer is the part of the original text from the absolute position
\* on, so position + length of the buffer = length of the original text; a
\* consumed match takes the matched prefix off the buffer; and the input is
\* marked exhausted exactly when nothing would remain of the buffer.
C30_BufferIsSuffix ==
  /\ []((PlainEngine /\ pc # "idle" /\ text_to_process # None) =>
          /\ text_to_process[1] = Rest
          /\ pos_in_str + Len(text_to_process[1]) = Len(original_text))
  /\ []((PlainEngine /\ pc # "idle" /\ text_to_process = None) =>
          pos_in_str = Len(original_text))
  /\ [][(PlainEngine /\ Consuming) =>
          LET after == SubStr(text_to_process[1], Len(WholeMatch.g0) + 1,
                              Len(text_to_process[1]))
          IN  /\ pos_in_str' = pos_in_str + Len(WholeMatch.g0)
              /\ (text_to_process' = None) <=> (after = << >>)
              /\ text_to_process' # None => text_to_process'[1] = after]_vars

\* C30 witness: on an engine without ignore rules and transforms a match was
\* consumed from a text in which the matched text occurs again further on, and
\* the buffer is what follows the match
C30_Witness ==
  /\ PlainEngine
  /\ pc = "gnt"
  /\ pos_in_str = 1
  /\ Len(original_text) >= 3
  /\ \E k \in 2..Len(original_text) : original_text[k] = original_text[1]
  /\ text_to_process = Some(Rest)
  /\ Len(text_to_process[1]) = Len(original_text) - 1

\* no ignore rule is declared and no rule has a transform or a capturing group
\* other than 0
RawEngine ==
  /\ rules_to_ignore = << >>
  /\ \A r \in AllRules : r.match_function = "none" /\ r.regex_group = 0

\* the sequences of a sequence of sequences, one after the other
RECURSIVE Flat(_)
Flat(ss) == IF ss = << >> THEN << >> ELSE Head(ss) \o Flat(Tail(ss))

\* the values of the tokens of the returned stream, groups flattened, the
\* end-of-input sentinel left out
EmittedValues ==
  LET toks == SelectSeq(Flat(Stream), LAMBDA tok : tok.parent # None)
  IN  [k \in DOMAIN toks |-> toks[k].value[1]]

\* the consumed texts, and those of them that visible rules matched
ConsumedTexts(shown_only) ==
  LET part == SelectSeq(consumed, LAMBDA c : c.show \/ ~shown_only)
  IN  [k \in DOMAIN part |-> part[k].text]

\* C31: round trip.  With no ignore rule, no transform and no capturing group,
\* when evaluate returns, the texts of the consumed matches, in consumption
\* order, make up the input text, and those of them that visible rules matched
\* are, in that order, the values of the tokens of the returned stream.
C31_RoundTrip ==
  (pc = "returned" /\ RawEngine) =>
    /\ Flat(ConsumedTexts(FALSE)) = original_text
    /\ EmittedValues = ConsumedTexts(TRUE)

\* C32: a transform runs only for the match that becomes the token.  In a round
\* of _get_next_token that consumes a match of the rule list, the rules whose
\* transform has run are the winning rule alone, once, if it has a transform,
\* and none otherwise.
C32_TransformOnlyForWinner ==
  (Scanning /\ ~IgnoreMatch.fit_with_a_rule /\ RuleMatch.fit_with_a_rule) =>
    Invocations(text_to_process[1], frame.rules, Some(frame.ignore_rules), line,
                pos_in_line) =
      IF Winner.match_function # "none" THEN <<Winner>> ELSE << >>

\* C33: how often the line-break rule was put in front of a chain does not
\* show in the result.  The engine built from a dependency list registered
\* twice, or from a premade rule loaded twice, ends a call as the engine built
\* from objects registered once ends it on the same text: both return, with
\* streams whose entries and groups agree on type, value, line and column, or
\* both fail, with the same line, position and snippet.
C33_ChainPrefixIrrelevant ==
  (Finished /\ hist.pc # "none") =>
    /\ hist.text = original_text
    /\ pc = hist.pc
    /\ pc = "returned" => SeenStream(Stream) = SeenStream(hist.stream)
    /\ pc = "raised" => /\ error[1].kind = hist.error[1].kind
                        /\ error[1].data = hist.error[1].data

\* C33 witness: the engine whose chains start with the line-break rule twice
\* returned a group resolved over a line break, and the engine whose chains
\* start with it once has returned on the same text
C33_Witness ==
  /\ pc = "returned" /\ hist.pc = "returned"
  /\ \E i \in DOMAIN hist.stream :
       /\ Len(hist.stream[i]) = 2
       /\ Len(hist.stream[i][1].dependencies.rules) = 3
       /\ hist.stream[i][2].line[1] > hist.stream[i][1].line[1]
  /\ \E i \in DOMAIN token_stream : token_stream[i].group

\* C34: a load_premade with load_functions = False registers its rule without
\* transform, so that the token of every match carries the matched text as its
\* value; and a load_premade with load_functions = True of a rule object loaded
\* before registers the rule with the transform the object was made with,
\* whatever the earlier loads were called with.
C34_StripIsPerLoad ==
  [][/\ CalledWith("load_premade", FALSE) =>
          /\ Registered.match_function = "none"
          /\ \A text \in Texts(MaxReuseLen) :
               LET m == check_if_match_with_rule(Registered, text, None, 0, 0, 0)
               IN  m.ok => m.token[1].value =
                             Some(ReMatch(Registered.regex[1], text).g0)
     /\ (CalledWith("load_premade", TRUE) /\ calls'[Len(calls')].again > 0) =>
          Registered.match_function =
            (IF Registered.type = "TEST" THEN PremadeTest
             ELSE PremadeVar).match_function]_vars

\* a template with its placeholders filled in one pass from left to right
RECURSIVE Filled(_, _, _)
Filled(t, ln, snippet) ==
  IF t = << >> THEN << >>
  ELSE IF Len(t) >= 8 /\ SubStr(t, 1, 8) = LinePlaceholder
       THEN ln \o Filled(SubStr(t, 9, Len(t)), ln, snippet)
  ELSE IF Len(t) >= 8 /\ SubStr(t, 1, 8) = TextPlaceholder
       THEN snippet \o Filled(SubStr(t, 9, Len(t)), ln, snippet)
  ELSE <<t[1]>> \o Filled(Tail(t), ln, snippet)

\* C35: the text a lexing failure carries is the remaining text up to, and
\* without, its first line break; line and position are those of the engine
\* when it failed; and the message of a template custom error is the template
\* with every [[LINE]] replaced by that line number and every [[TEXT]] by
\* that text.
C35_ErrorData ==
  [][(error = None /\ error' # None) =>
       /\ \E n \in 0..Len(text_to_process[1]) :
            /\ error'[1].data.text = SubStr(text_to_process[1], 1, n)
            /\ CountNL(error'[1].data.text) = 0
            /\ n < Len(text_to_process[1]) => text_to_process[1][n + 1] = NL
       /\ error'[1].data.line = line /\ line' = line
       /\ error'[1].data.pos = pos_in_str /\ pos_in_str' = pos_in_str
       /\ error'[1].custom.kind = "template" =>
            error'[1].message =
              Some(Filled(TemplateText(error'[1].custom.name), Str(line),
                          error'[1].data.text))]_vars

\* C35 witness: a call with a template custom error failed past the start of
\* its text, on a second line, with a line break behind the offending text
C35_Witness ==
  /\ pc = "raised"
  /\ error[1].custom.kind = "template"
  /\ error[1].data.pos > 0
  /\ error[1].data.line > 1
  /\ Len(error[1].data.text) > 0
  /\ Len(error[1].data.text) < Len(text_to_process[1])

\* the positions of text inside an occurrence of pat, the occurrences taken
\* from left to right without overlap, from offset pos on
RECURSIVE Occurrences(_, _, _)
Occurrences(pat, text, pos) ==
  IF pos >= Len(text) THEN {}
  ELSE LET m == ReMatchAt(pat, text, pos)
       IN  IF m.ok /\ Len(m.g0) > 0
           THEN (pos + 1)..(pos + Len(m.g0)) \cup Occurrences(pat, text, pos + Len(m.g0))
           ELSE Occurrences(pat, text, pos + 1)

\* text without the characters at the positions of gone
Without(text, gone) ==
  LET keep == (1..Len(text)) \ gone
  IN  [k \in 1..Cardinality(keep) |->
         text[CHOOSE i \in keep : Cardinality({j \in keep : j < i}) = k - 1]]

\* text with every occurrence of every pattern of the list removed, pattern
\* after pattern
RECURSIVE Removed(_, _)
Removed(text, ignore) ==
  IF ignore = << >> THEN text
  ELSE Removed(Without(text, Occurrences(Head(ignore).regex[1], text, 0)), Tail(ignore))

\* C36: check_if_match_with_rule with a list of ignore rules returns what it
\* returns without ignore rules on the text that is left when every occurrence
\* of every ignore pattern, wherever it is in the text, has been removed.
C36_IgnoreIsRemoval ==
  (calls # << >> /\ calls[1].op = "check_if_match_with_rule"
     /\ calls[1].rules_to_ignore # None) =>
    returned.value =
      check_if_match_with_rule(calls[1].rule,
                               Removed(calls[1].text, calls[1].rules_to_ignore[1]),
                               None, 0, 0, 0)

\* C36 witness: with an ignore pattern the rule matched a text that it does not
\* match as it stands, the ignored text lying inside the match
C36_Witness ==
  /\ calls # << >> /\ calls[1].op = "check_if_match_with_rule"
  /\ calls[1].rules_to_ignore # None
  /\ returned.value.ok
  /\ ~check_if_match_with_rule(calls[1].rule, calls[1].text, None, 0, 0, 0).ok
  /\ calls[1].text[1] = "a"

====
